---- MODULE Spec2Model ----
(***************************************************************************)
(* A model of the OCR application of src/app.py: the markup normalizer     *)
(* (clean_extracted_text), the prompt builder (create_prompt), the plain   *)
(* text export and the document store gateway (save_document,              *)
(* get_user_documents, delete_document).                                   *)
(*                                                                         *)
(* Text is modelled character by character: a text is a sequence of        *)
(* one-character strings, so that the regular expressions and the line     *)
(* re-indentation of clean_extracted_text are computed as Python computes  *)
(* them.                                                                   *)
(***************************************************************************)
EXTENDS Integers, Sequences, FiniteSets, TLC

(***************************************************************************)
(* Bounds of the model.                                                    *)
(***************************************************************************)
\* The number of fragments a model response is made of.
MaxFragments == 3
\* The number of documents ever saved (the ids the store hands out).
MaxDocs == 3
\* The last reading of the clock.
MaxClock == 1
\* The number of texts a session accumulates.
MaxItems == 2
\* The number of documents saved with the Save Document button.
MaxSaves == 1

VARIABLES
    response,     \* the raw text of a model response (a sequence of characters)
    nfragments,   \* how many fragments of the response have arrived
    cleanPc,      \* "receiving", "cleaned" (one pass) or "recleaned" (two passes)
    text,         \* clean_extracted_text(response)
    text2,        \* clean_extracted_text(text)
    ocr_mode,             \* the sidebar's "OCR Mode" selection
    target_language,      \* the sidebar's "Target Language" selection
    preserve_formatting,  \* the sidebar's "Preserve text formatting" checkbox
    fix_grammar,          \* the fix_grammar toggle of the builder's contract
    include_confidence,   \* the include_confidence toggle of the builder's contract
    prompt,               \* the prompt create_prompt returned, <<>> before a call
    promptPc,             \* "idle", or "built" once create_prompt has returned
    documents,    \* the rows of the store's documents table
    next_id,      \* the next value of the SERIAL column id
    clock,        \* the last reading of datetime.now()
    lastCall,     \* the last call of the gateway: what was asked and how it went
    saveRet,      \* what save_document has just returned: an id, 0 for None
    listRet,      \* what get_user_documents has just returned
    deleteRet,    \* what delete_document has just returned
    ledger,       \* history: who saved which id with what, and the ids deleted
    authenticated,           \* st.session_state.authenticated
    user_id,                 \* st.session_state.user_id, 0 for None
    username,                \* st.session_state.username, "" for None
    all_extracted_texts,     \* st.session_state.all_extracted_texts
    processed_images,        \* st.session_state.processed_images: (name, image) pairs
    uploaded_files,          \* the files in the uploader
    include_images_in_docx,  \* the checkbox "Include images in DOCX"
    separate_pages,          \* the checkbox "Each image on new page"
    txt_content,             \* the text handed to the download button, <<>> when none
    exported,                \* which export txt_content is
    show_formatting_panel,   \* st.session_state.show_formatting_panel
    lastBatch,               \* the run of Process All Images just made, if any
    docx,                    \* the call of create_formatted_document just made, if any
    notice                   \* what st.success of My Documents said in this run, "" if nothing

normVars == <<response, nfragments, cleanPc, text, text2>>
promptVars == <<ocr_mode, target_language, preserve_formatting, fix_grammar,
                include_confidence, prompt, promptPc>>
storeVars == <<documents, next_id, clock, lastCall, saveRet, listRet, deleteRet, ledger>>
loginVars == <<authenticated, user_id, username>>
sessionVars == <<all_extracted_texts, processed_images>>
widgetVars == <<uploaded_files, include_images_in_docx, separate_pages,
                show_formatting_panel>>
exportVars == <<txt_content, exported>>
appVars == <<loginVars, sessionVars, widgetVars, exportVars, lastBatch, docx, notice>>
vars == <<normVars, promptVars, storeVars, appVars>>

\* What an action of one component leaves alone.
notNormVars == <<promptVars, storeVars, appVars>>
notPromptVars == <<normVars, storeVars, appVars>>
notStoreVars == <<normVars, promptVars, appVars>>
notAppVars == <<normVars, promptVars>>

(***************************************************************************)
(* Sequence helpers.                                                       *)
(***************************************************************************)
MinOf(S) == CHOOSE m \in S : \A n \in S : m <= n

RECURSIVE Concat(_)
\* The concatenation of a sequence of sequences.
Concat(ss) == IF ss = <<>> THEN <<>> ELSE Head(ss) \o Concat(Tail(ss))

\* n space characters: Python's ' ' * n.
Spaces(n) == [k \in 1..n |-> " "]

(***************************************************************************)
(* Characters.                                                             *)
(***************************************************************************)
\* re.IGNORECASE on the letters of the three tags.
Lower(c) == CASE c = "U" -> "u" [] c = "B" -> "b" [] c = "I" -> "i" [] OTHER -> c

\* str.isspace on the characters of the model.
IsSpace(c) == c \in {" ", "\t", "\n", "\r"}

(***************************************************************************)
(* re.sub(r'<L>(.*?)</L>', r'M\1M', text, flags=re.IGNORECASE)             *)
(***************************************************************************)
\* Whether the (lower-case) pattern pat matches s at position p, ignoring case.
MatchesAt(s, p, pat) ==
    /\ p + Len(pat) - 1 <= Len(s)
    /\ \A k \in 1..Len(pat) : Lower(s[p + k - 1]) = pat[k]

\* The first position >= from where pat matches s, 0 when there is none.
FirstMatch(s, from, pat) ==
    LET C == {j \in from..Len(s) : MatchesAt(s, j, pat)}
    IN  IF C = {} THEN 0 ELSE MinOf(C)

\* '.' matches every character but the line break (no re.DOTALL is given).
DotMatches(c) == c # "\n"

RECURSIVE SubPairFrom(_, _, _, _)
\* The substitution from position p on: the leftmost match starts at the first
\* opening tag with a closing tag after it and a body '.' can match; the lazy
\* group ends at the first closing tag.
SubPairFrom(s, p, letter, marker) ==
    IF p > Len(s) THEN <<>>
    ELSE LET open  == <<"<", letter, ">">>
             close == <<"<", "/", letter, ">">>
             j     == IF MatchesAt(s, p, open) THEN FirstMatch(s, p + 3, close) ELSE 0
             body  == SubSeq(s, p + 3, j - 1)
         IN  IF j # 0 /\ \A k \in 1..Len(body) : DotMatches(body[k])
             THEN marker \o body \o marker \o SubPairFrom(s, j + 4, letter, marker)
             ELSE <<s[p]>> \o SubPairFrom(s, p + 1, letter, marker)

SubPair(s, letter, marker) == SubPairFrom(s, 1, letter, marker)

(***************************************************************************)
(* re.sub(r'<[^>]+>', '', text)                                            *)
(***************************************************************************)
RECURSIVE RemoveTagsFrom(_, _)
\* A tag is a '<', one or more characters that are not '>', and a '>'.
RemoveTagsFrom(s, p) ==
    IF p > Len(s) THEN <<>>
    ELSE LET G == {q \in (p + 1)..Len(s) : s[q] = ">"}
             q == IF G = {} THEN 0 ELSE MinOf(G)
         IN  IF s[p] = "<" /\ q >= p + 2
             THEN RemoveTagsFrom(s, q + 1)
             ELSE <<s[p]>> \o RemoveTagsFrom(s, p + 1)

\* A plausible slip: re.sub(..., count=1), only the first tag is removed.
RemoveFirstTagOnly(s) ==
    LET T == {p \in 1..Len(s) : /\ s[p] = "<"
                                /\ \E q \in (p + 2)..Len(s) :
                                     /\ s[q] = ">"
                                     /\ \A r \in (p + 1)..(q - 1) : s[r] # ">"}
    IN  IF T = {} THEN s
        ELSE LET p == MinOf(T)
                 q == MinOf({r \in (p + 1)..Len(s) : s[r] = ">"})
             IN  SubSeq(s, 1, p - 1) \o SubSeq(s, q + 1, Len(s))

RemoveTags(s) == RemoveTagsFrom(s, 1)

\* The four tag rules, in the order of the code.
StripMarkup(s) ==
    RemoveTags(SubPair(SubPair(SubPair(s, "u", <<"_">>), "b", <<"*", "*">>),
                       "i", <<"*">>))

(***************************************************************************)
(* The line-by-line re-indentation.                                        *)
(***************************************************************************)
RECURSIVE SplitLines(_)
\* text.split('\n')
SplitLines(s) ==
    LET N == {k \in 1..Len(s) : s[k] = "\n"}
    IN  IF N = {} THEN <<s>>
        ELSE LET k == MinOf(N)
             IN  <<SubSeq(s, 1, k - 1)>> \o SplitLines(SubSeq(s, k + 1, Len(s)))

RECURSIVE JoinLines(_)
\* '\n'.join(lines)
JoinLines(ls) ==
    IF ls = <<>> THEN <<>>
    ELSE IF Len(ls) = 1 THEN ls[1]
    ELSE ls[1] \o <<"\n">> \o JoinLines(Tail(ls))

RECURSIVE LStrip(_)
\* line.lstrip()
LStrip(l) == IF l # <<>> /\ IsSpace(Head(l)) THEN LStrip(Tail(l)) ELSE l

RECURSIVE RStrip(_)
RStrip(l) ==
    IF l # <<>> /\ IsSpace(l[Len(l)]) THEN RStrip(SubSeq(l, 1, Len(l) - 1)) ELSE l

\* line.strip()
Strip(l) == RStrip(LStrip(l))

\* A plausible slip: one space too many in front of every line.
CleanLineOneMore(line) ==
    IF Strip(line) # <<>> THEN Spaces(Len(line) - Len(LStrip(line)) + 1) \o Strip(line)
    ELSE <<>>

\* A plausible slip: the leading whitespace is kept as it is, tabs included.
CleanLineKeepTabs(line) ==
    IF Strip(line) # <<>>
    THEN SubSeq(line, 1, Len(line) - Len(LStrip(line))) \o Strip(line)
    ELSE <<>>

\* The body of the loop over the lines.
CleanLine(line) ==
    LET leading_spaces == Len(line) - Len(LStrip(line))
        content        == Strip(line)
    IN  IF content # <<>> THEN Spaces(leading_spaces) \o content ELSE <<>>

Reindent(s) ==
    LET lines == SplitLines(s)
    IN  JoinLines([k \in 1..Len(lines) |-> CleanLine(lines[k])])

clean_extracted_text(s) == IF s = <<>> THEN s ELSE Reindent(StripMarkup(s))

(***************************************************************************)
(* The responses of the model: up to MaxFragments of these fragments.      *)
(***************************************************************************)
OpenTag(letter)  == <<"<", letter, ">">>
CloseTag(letter) == <<"<", "/", letter, ">">>
Pair(letter, body) == OpenTag(letter) \o body \o CloseTag(letter)

Fragments ==
    {OpenTag("u"), CloseTag("u"), OpenTag("b"), CloseTag("b"),
     OpenTag("i"), CloseTag("i"),
     Pair("u", <<"x">>), Pair("B", <<"x">>), Pair("i", <<"x">>),
     <<"x">>, <<" ">>, <<"\t">>, <<"\n">>, <<"<">>, <<">">>}

(***************************************************************************)
(* The normalizer at work: a response arrives and is cleaned.              *)
(***************************************************************************)
NormIdle ==
    /\ response = <<>>
    /\ nfragments = 0
    /\ cleanPc = "receiving"
    /\ text = <<>>
    /\ text2 = <<>>

\* One more fragment of the response arrives.
Receive(f) ==
    /\ cleanPc = "receiving"
    /\ nfragments < MaxFragments
    /\ response' = response \o f
    /\ nfragments' = nfragments + 1
    /\ UNCHANGED <<cleanPc, text, text2>>
    /\ UNCHANGED notNormVars

\* text = clean_extracted_text(text)
CleanText ==
    /\ cleanPc = "receiving"
    /\ text' = clean_extracted_text(response)
    /\ cleanPc' = "cleaned"
    /\ UNCHANGED <<response, nfragments, text2>>
    /\ UNCHANGED notNormVars

\* The cleaned text is cleaned once more.
CleanAgain ==
    /\ cleanPc = "cleaned"
    /\ text2' = clean_extracted_text(text)
    /\ cleanPc' = "recleaned"
    /\ UNCHANGED <<response, nfragments, text>>
    /\ UNCHANGED notNormVars

(***************************************************************************)
(* The prompt builder, create_prompt. A prompt is modelled as its sequence *)
(* of words, punctuation marks and line breaks ("\n"); the name of the     *)
(* target language is one word.                                            *)
(***************************************************************************)
OcrModes ==
    {"Legal/Official Document", "Handwriting Focus", "Mixed Text", "Document Scan",
     "Creative/Artistic Text"}

TargetLanguages ==
    {"Same as original", "English", "Spanish", "French", "German", "Italian",
     "Portuguese", "Russian", "Chinese", "Japanese", "Korean", "Arabic", "Hindi",
     "Dutch", "Swedish", "Norwegian"}

\* The base sentence of each mode; the last branch is the code's else.
BasePrompt(mode) ==
    CASE mode = "Legal/Official Document" ->
        <<"You", "are", "an", "expert", "at", "extracting", "text", "from",
          "legal", "and", "official", "documents", ".", "Extract", "ALL",
          "text", "with", "perfect", "accuracy", ",", "maintaining", "exact",
          "formatting", ",", "numbering", "systems", ",", "indentation", ",",
          "and", "legal", "document", "structure", ".", "Pay", "special",
          "attention", "to", "section", "numbers", ",", "subsections", ",",
          "clauses", ",", "and", "hierarchical", "organization", ".">>
    []   mode = "Handwriting Focus" ->
        <<"You", "are", "an", "expert", "at", "reading", "handwritten",
          "text", ".", "Extract", "ALL", "text", "from", "this",
          "handwritten", "image", "with", "high", "accuracy", ".", "Pay",
          "special", "attention", "to", "cursive", "writing", ",",
          "connected", "letters", ",", "and", "personal", "writing",
          "styles", ".">>
    []   mode = "Mixed Text" ->
        <<"Extract", "all", "text", "from", "this", "image", ",", "which",
          "may", "contain", "both", "handwritten", "and", "printed", "text",
          ".">>
    []   mode = "Document Scan" ->
        <<"Extract", "all", "text", "from", "this", "document", "image", ",",
          "maintaining", "the", "exact", "structure", "and", "layout", ".">>
    []   OTHER ->
        <<"Extract", "text", "from", "this", "image", ",", "which", "may",
          "contain", "artistic", ",", "stylized", ",", "or", "decorative",
          "text", ".">>

\* The translation directive, which names the language.
TranslateDirective(language) ==
    <<"Translate", "the", "extracted", "text", "to", language, ".">>

\* The block of formatting rules of preserve_formatting.
FormattingRules ==
    <<"CRITICAL", "FORMATTING", "RULES", ":", "\n", "-", "Preserve", "ALL",
      "numbering", "exactly", ":", "(", "6", ")", ",", "(", "7", ")", ",",
      "(", "8", ")", ",", "etc", ".", "\n", "-", "Use", "proper",
      "indentation", "with", "spaces", "(", "not", "tabs", ")", "\n", "-",
      "For", "underlined", "text", ":", "Use", "CAPITAL", "LETTERS", "or",
      "add", "underscores", "like", "_", "HEADING", "_", "\n", "-", "DO",
      "NOT", "use", "HTML", "tags", "like", "<", "u", ">", ",", "<", "b",
      ">", ",", "or", "similar", "\n", "-", "Maintain", "exact", "spacing",
      "and", "line", "breaks", "as", "shown", "\n", "-", "Keep", "the",
      "same", "paragraph", "indentation", "levels", "\n", "-", "Preserve",
      "all", "punctuation", "and", "special", "characters", "exactly", "\n",
      "-", "Use", "plain", "text", "formatting", "only", "-", "no", "markup",
      "tags", "\n", "-", "For", "emphasized", "text", ",", "use", "CAPITALS",
      "or", "_", "underscores", "_", "\n", "-", "Maintain", "the", "visual",
      "hierarchy", "with", "proper", "spacing", "between", "sections">>

\* The directive of the else branch.
ParagraphDirective ==
    <<"Preserve", "basic", "paragraph", "structure", "and", "line", "breaks",
      ".">>

\* The closing instruction.
ClosingInstruction ==
    <<"\n", "\n", "Provide", "ONLY", "the", "extracted", "text", "in",
      "plain", "text", "format", ".", "NO", "HTML", "tags", ",", "NO",
      "markup", ".", "Use", "spaces", "for", "indentation", "and",
      "underscores", "or", "CAPITALS", "for", "emphasis", ".">>

\* A plausible slip: the translation directive is appended whatever the language.
create_prompt_translating(mode, language, preserve) ==
    BasePrompt(mode) \o TranslateDirective(language)
        \o (IF preserve THEN FormattingRules ELSE ParagraphDirective)
        \o ClosingInstruction

\* A plausible slip: the closing instruction is appended before the formatting
\* directive.
create_prompt_closing_early(mode, language, preserve) ==
    BasePrompt(mode)
        \o (IF language # "Same as original" THEN TranslateDirective(language) ELSE <<>>)
        \o ClosingInstruction
        \o (IF preserve THEN FormattingRules ELSE ParagraphDirective)

\* create_prompt reads the three sidebar values; it has no other input.
create_prompt(mode, language, preserve) ==
    LET base_prompt == BasePrompt(mode)
        translated  == IF language # "Same as original"
                       THEN base_prompt \o TranslateDirective(language)
                       ELSE base_prompt
        formatted   == IF preserve
                       THEN translated \o FormattingRules
                       ELSE translated \o ParagraphDirective
    IN  formatted \o ClosingInstruction

PromptIdle ==
    /\ ocr_mode = "Legal/Official Document"
    /\ target_language = "English"
    /\ preserve_formatting = TRUE
    /\ fix_grammar = FALSE
    /\ include_confidence = FALSE
    /\ prompt = <<>>
    /\ promptPc = "idle"

\* A widget changes: the script runs again, the prompt of the last run is gone.
SelectOcrMode(m) ==
    /\ ocr_mode' = m
    /\ prompt' = <<>>
    /\ promptPc' = "idle"
    /\ UNCHANGED <<target_language, preserve_formatting, fix_grammar, include_confidence>>
    /\ UNCHANGED notPromptVars

SelectTargetLanguage(l) ==
    /\ target_language' = l
    /\ prompt' = <<>>
    /\ promptPc' = "idle"
    /\ UNCHANGED <<ocr_mode, preserve_formatting, fix_grammar, include_confidence>>
    /\ UNCHANGED notPromptVars

TogglePreserveFormatting ==
    /\ preserve_formatting' = ~preserve_formatting
    /\ prompt' = <<>>
    /\ promptPc' = "idle"
    /\ UNCHANGED <<ocr_mode, target_language, fix_grammar, include_confidence>>
    /\ UNCHANGED notPromptVars

\* The caller of the builder changes one of the two toggles of its contract.
ToggleFixGrammar ==
    /\ fix_grammar' = ~fix_grammar
    /\ prompt' = <<>>
    /\ promptPc' = "idle"
    /\ UNCHANGED <<ocr_mode, target_language, preserve_formatting, include_confidence>>
    /\ UNCHANGED notPromptVars

ToggleIncludeConfidence ==
    /\ include_confidence' = ~include_confidence
    /\ prompt' = <<>>
    /\ promptPc' = "idle"
    /\ UNCHANGED <<ocr_mode, target_language, preserve_formatting, fix_grammar>>
    /\ UNCHANGED notPromptVars

\* prompt = create_prompt()
CreatePrompt ==
    /\ promptPc = "idle"
    /\ prompt' = create_prompt(ocr_mode, target_language, preserve_formatting)
    /\ promptPc' = "built"
    /\ UNCHANGED <<ocr_mode, target_language, preserve_formatting, fix_grammar,
                   include_confidence>>
    /\ UNCHANGED notPromptVars

(***************************************************************************)
(* json.dumps and json.loads on what the application stores: lists of      *)
(* strings (character by character, with the escapes of json.dumps) and    *)
(* the settings dictionary (keys, names and true/false as whole words).    *)
(***************************************************************************)
\* A plausible slip: only the quote is escaped.
JsonEscapeQuoteOnly(c) == IF c = "\"" THEN <<"\\", "\"">> ELSE <<c>>

\* The escape of one character inside a JSON string.
JsonEscape(c) ==
    CASE c = "\"" -> <<"\\", "\"">>
    []   c = "\\" -> <<"\\", "\\">>
    []   c = "\n" -> <<"\\", "n">>
    []   c = "\t" -> <<"\\", "t">>
    []   c = "\r" -> <<"\\", "r">>
    []   OTHER    -> <<c>>

\* The character an escape stands for.
JsonUnescape(c) ==
    CASE c = "n" -> "\n" [] c = "t" -> "\t" [] c = "r" -> "\r" [] OTHER -> c

\* A string as a JSON string literal.
JsonString(str) ==
    <<"\"">> \o Concat([k \in 1..Len(str) |-> JsonEscape(str[k])]) \o <<"\"">>

RECURSIVE JsonItems(_)
JsonItems(list) ==
    IF list = <<>> THEN <<>>
    ELSE IF Len(list) = 1 THEN JsonString(list[1])
    ELSE JsonString(list[1]) \o <<",", " ">> \o JsonItems(Tail(list))

\* json.dumps(list of strings)
json_dumps_list(list) == <<"[">> \o JsonItems(list) \o <<"]">>

RECURSIVE JsonReadString(_, _, _)
\* The string literal whose characters start at p: its value and what follows it.
JsonReadString(js, p, acc) ==
    IF js[p] = "\"" THEN [val |-> acc, next |-> p + 1]
    ELSE IF js[p] = "\\"
         THEN JsonReadString(js, p + 2, Append(acc, JsonUnescape(js[p + 1])))
         ELSE JsonReadString(js, p + 1, Append(acc, js[p]))

RECURSIVE JsonReadItems(_, _, _)
JsonReadItems(js, p, acc) ==
    IF js[p] = "]" THEN acc
    ELSE IF js[p] = "\""
         THEN LET r == JsonReadString(js, p + 1, <<>>)
              IN  JsonReadItems(js, r.next, Append(acc, r.val))
         ELSE JsonReadItems(js, p + 1, acc)

\* json.loads of the text of a list of strings
json_loads_list(js) == JsonReadItems(js, 2, <<>>)

\* The keys of the settings dictionary, in the order the handler writes them.
SettingsKeys ==
    <<"target_language", "ocr_mode", "preserve_formatting", "include_images_in_docx",
      "separate_pages">>

\* The keys whose values are the booleans of the checkboxes.
BooleanKeys == {"preserve_formatting", "include_images_in_docx", "separate_pages"}

\* A value of the dictionary: true / false for a boolean, a name between quotes.
JsonValue(key, v) ==
    IF key \in BooleanKeys THEN <<IF v THEN "true" ELSE "false">> ELSE <<"\"", v, "\"">>

RECURSIVE JsonMembers(_, _)
JsonMembers(d, keys) ==
    IF keys = <<>> THEN <<>>
    ELSE <<"\"", Head(keys), "\"", ":", " ">> \o JsonValue(Head(keys), d[Head(keys)])
         \o (IF Len(keys) = 1 THEN <<>> ELSE <<",", " ">>)
         \o JsonMembers(d, Tail(keys))

\* json.dumps(settings)
json_dumps_settings(d) == <<"{">> \o JsonMembers(d, SettingsKeys) \o <<"}">>

RECURSIVE JsonReadMembers(_, _, _)
\* The members from position p on, added to the dictionary acc.
JsonReadMembers(js, p, acc) ==
    IF js[p] = "}" THEN acc
    ELSE IF js[p] = "\""
         THEN LET key   == js[p + 1]
                  at    == p + 5
                  value == IF js[at] = "\"" THEN js[at + 1] ELSE js[at] = "true"
                  next  == IF js[at] = "\"" THEN at + 3 ELSE at + 1
              IN  JsonReadMembers(js, next, (key :> value) @@ acc)
         ELSE JsonReadMembers(js, p + 1, acc)

\* json.loads of the text of a settings dictionary
json_loads_settings(js) == JsonReadMembers(js, 2, <<>>)

\* settings.get(key, 'N/A')
SettingsGet(d, key) == IF key \in DOMAIN d THEN d[key] ELSE "N/A"

(***************************************************************************)
(* The document store gateway. The store is the documents table; a call    *)
(* reaches it ("ok"), finds no client ("unreachable") or its query raises  *)
(* ("raises").                                                             *)
(***************************************************************************)
\* The ids of the registered users.
Users == {1, 2}

DocIds == 1..MaxDocs

\* How a call of the store can go.
Outcomes == {"ok", "unreachable", "raises"}

Row(id, user, name, texts, names, settings, now) ==
    [id |-> id, user_id |-> user, doc_name |-> name,
     extracted_texts |-> json_dumps_list(texts),
     image_names |-> json_dumps_list(names),
     processing_settings |-> json_dumps_settings(settings),
     created_at |-> now]

\* What get_user_documents makes of a row of the result.
DocTuple(r) ==
    <<r.id, r.doc_name, r.extracted_texts, r.image_names, r.processing_settings,
      r.created_at>>

\* A plausible slip: the query of the list has no .eq('user_id', user_id).
SelectAllRows(docs, user) == docs

\* .select(...).eq('user_id', user_id)
SelectRows(docs, user) == {r \in docs : r.user_id = user}

\* A plausible slip: order('created_at') without desc=True.
OrderedOldestFirst(rows) ==
    \A i \in 1..(Len(rows) - 1) : rows[i].created_at <= rows[i + 1].created_at

\* .order('created_at', desc=True): rows of equal time come in any order.
OrderedNewestFirst(rows) ==
    \A i \in 1..(Len(rows) - 1) : rows[i].created_at >= rows[i + 1].created_at

\* The orders in which the store may return the rows of a set.
Results(rowset) ==
    {rows \in [1..Cardinality(rowset) -> rowset] :
        /\ \A i, j \in 1..Cardinality(rowset) : i # j => rows[i] # rows[j]
        /\ OrderedNewestFirst(rows)}

\* A plausible slip: the delete has no .eq('user_id', user_id).
MatchingRowsById(docs, user, doc_id) == {r \in docs : r.id = doc_id}

\* .delete().eq('id', doc_id).eq('user_id', user_id)
MatchingRows(docs, user, doc_id) == {r \in docs : r.id = doc_id /\ r.user_id = user}

NoCall == [op |-> "none", user_id |-> 0, doc_id |-> 0, outcome |-> "ok",
           error |-> "none", raised |-> FALSE, before |-> {}, retry |-> FALSE]

\* The run before this one was a save of that user that stored nothing.
AfterFailedSave(user) ==
    /\ lastCall.user_id = user
    /\ \/ lastCall.op = "save" /\ lastCall.outcome # "ok"
       \/ lastCall.outcome = "blank name"

Call(op, user, doc_id, outcome, error) ==
    [op |-> op, user_id |-> user, doc_id |-> doc_id, outcome |-> outcome,
     error |-> IF outcome = "raises" THEN error ELSE "none",
     raised |-> FALSE, before |-> documents,
     retry |-> op = "save" /\ AfterFailedSave(user)]

StoreIdle ==
    /\ documents = {}
    /\ next_id = 1
    /\ clock = 0
    /\ lastCall = NoCall
    /\ saveRet = 0
    /\ listRet = <<>>
    /\ deleteRet = FALSE
    /\ ledger = [saved |-> {}, deleted |-> {}]

\* A plausible slip: the row is written before the insert raises.
save_documentWrittenBeforeRaise(user, name, texts, names, settings, outcome, now) ==
    /\ now \in clock..(IF clock < MaxClock THEN clock + 1 ELSE clock)
    /\ lastCall' = Call("save", user, IF outcome = "ok" THEN next_id ELSE 0, outcome,
                        "Error saving document")
    /\ IF outcome = "ok"
       THEN /\ documents' = documents \cup
                    {Row(next_id, user, name, texts, names, settings, now)}
            /\ next_id' = next_id + 1
            /\ clock' = now
            /\ saveRet' = next_id
            /\ ledger' = [ledger EXCEPT !.saved = @ \cup {<<next_id, user, texts, names, settings>>}]
       ELSE /\ saveRet' = 0
            /\ documents' = IF outcome = "raises"
                            THEN documents \cup
                                     {Row(next_id, user, name, texts, names, settings, now)}
                            ELSE documents
            /\ UNCHANGED <<next_id, clock, ledger>>
    /\ listRet' = <<>>
    /\ deleteRet' = FALSE

\* save_document(user_id, doc_name, extracted_texts, image_names, settings): the
\* row is inserted at the time now read from the clock, and its id returned;
\* None (0) is returned when there is no client or the insert raises.
save_document(user, name, texts, names, settings, outcome, now) ==
    /\ now \in clock..(IF clock < MaxClock THEN clock + 1 ELSE clock)
    /\ lastCall' = Call("save", user, IF outcome = "ok" THEN next_id ELSE 0, outcome,
                        "Error saving document")
    /\ IF outcome = "ok"
       THEN /\ documents' = documents \cup
                    {Row(next_id, user, name, texts, names, settings, now)}
            /\ next_id' = next_id + 1
            /\ clock' = now
            /\ saveRet' = next_id
            /\ ledger' = [ledger EXCEPT !.saved = @ \cup {<<next_id, user, texts, names, settings>>}]
       ELSE /\ saveRet' = 0
            /\ UNCHANGED <<documents, next_id, clock, ledger>>
    /\ listRet' = <<>>
    /\ deleteRet' = FALSE

\* get_user_documents(user_id): the tuples of the user's rows, newest first; []
\* when there is no client or the query raises.
get_user_documents(user, outcome) ==
    /\ lastCall' = Call("list", user, 0, outcome, "Error fetching documents")
    /\ IF outcome = "ok"
       THEN \E rows \in Results(SelectRows(documents, user)) :
                listRet' = [i \in 1..Len(rows) |-> DocTuple(rows[i])]
       ELSE listRet' = <<>>
    /\ saveRet' = 0
    /\ deleteRet' = FALSE
    /\ UNCHANGED <<documents, next_id, clock, ledger>>

\* delete_document(user_id, doc_id): the rows of that id and that user are
\* deleted and True is returned when there was one; False when there is no
\* client or the query raises.
delete_document(user, doc_id, outcome) ==
    /\ lastCall' = Call("delete", user, doc_id, outcome, "Error deleting document")
    /\ IF outcome = "ok"
       THEN LET data == MatchingRows(documents, user, doc_id)
            IN  /\ documents' = documents \ data
                /\ deleteRet' = (Cardinality(data) > 0)
                /\ ledger' = [ledger EXCEPT
                                 !.deleted = @ \cup {r.id : r \in data}]
       ELSE /\ deleteRet' = FALSE
            /\ UNCHANGED <<documents, ledger>>
    /\ saveRet' = 0
    /\ listRet' = <<>>
    /\ UNCHANGED <<next_id, clock>>

\* What the callers of the gateway pass in this model.
SampleTexts == {<<<<"H", "i">>, <<"a", "\n", " ", "b">>>>}

SampleNames(texts) ==
    SubSeq(<<<<"a", ".", "p", "n", "g">>, <<"b", ".", "p", "n", "g">>>>, 1, Len(texts))

SampleSettings ==
    [target_language |-> "English", ocr_mode |-> "Legal/Official Document",
     preserve_formatting |-> TRUE, include_images_in_docx |-> TRUE,
     separate_pages |-> TRUE]

\* A caller saves a document.
SaveDocument(user, texts, outcome, now) ==
    /\ next_id <= MaxDocs
    /\ save_document(user, <<"D", "o", "c">>, texts, SampleNames(texts), SampleSettings,
                     outcome, now)
    /\ UNCHANGED notStoreVars

\* A caller lists the documents of a user.
ListDocuments(user, outcome) ==
    /\ get_user_documents(user, outcome)
    /\ UNCHANGED notStoreVars

\* A caller deletes a document in the name of a user.
DeleteDocument(user, doc_id, outcome) ==
    /\ delete_document(user, doc_id, outcome)
    /\ UNCHANGED notStoreVars

\* The texts and names a caller passes in the round trip: a name per text, as
\* the Save Document button passes them; the texts hold what json.dumps escapes.
RoundTripLists ==
    {[texts |-> <<>>, names |-> <<>>],
     [texts |-> <<<<"H", "i">>>>, names |-> <<<<"a", ".", "p", "n", "g">>>>],
     [texts |-> <<<<"a", "\n", "\t", "b">>, <<"\"", "\\", "n", "\"">>>>,
      names |-> <<<<"a", ".", "p", "n", "g">>, <<"b", "\"", ".", "p", "n", "g">>>>],
     [texts |-> <<<<"\\", "\\", "\r">>, <<",", " ", "]">>>>,
      names |-> <<<<"b", ".", "p", "n", "g">>, <<"b", ".", "p", "n", "g">>>>]}

\* The settings a caller passes in the round trip.
RoundTripSettings ==
    {SampleSettings,
     [target_language |-> "Same as original", ocr_mode |-> "Handwriting Focus",
      preserve_formatting |-> FALSE, include_images_in_docx |-> FALSE,
      separate_pages |-> FALSE],
     [target_language |-> "French", ocr_mode |-> "Mixed Text",
      preserve_formatting |-> TRUE, include_images_in_docx |-> FALSE,
      separate_pages |-> TRUE]}

\* A caller saves a document with these texts, names and settings.
SaveDocumentWith(user, lists, settings, outcome, now) ==
    /\ next_id <= MaxSaves
    /\ save_document(user, <<"D", "o", "c">>, lists.texts, lists.names, settings,
                     outcome, now)
    /\ UNCHANGED notStoreVars

(***************************************************************************)
(* The session of one browser: login, the uploader, the accumulated texts  *)
(* and images, and the two plain-text exports.                             *)
(***************************************************************************)
\* The usernames of the registered users.
Usernames == [u \in Users |-> IF u = 1 THEN "alice" ELSE "bob"]

\* The files a user uploads: a name and the picture Image.open reads from it.
FileA == [name |-> <<"a", ".", "p", "n", "g">>, image |-> "picture A"]

FileB == [name |-> <<"b", ".", "p", "n", "g">>, image |-> "picture B"]

Files == <<FileA, FileB>>

\* What is written on a picture.
TextOn(image) ==
    IF image = "picture A" THEN <<"H", "i">> ELSE <<"a", "\n", " ", "b">>

\* What get_model and generate_content can do with a picture: raise, or answer
\* with the text of the picture, with markup alone, or with nothing.
Answers(image) ==
    {[error |-> e, text |-> <<>>] : e \in {"no model", "generate raises"}}
    \cup {[error |-> "none", text |-> t] :
             t \in {TextOn(image), <<"<", "b", "r", ">">>, <<>>}}

NoExport == [kind |-> "none", doc_id |-> 0]

NoDocx == [kind |-> "none", doc_id |-> 0, texts |-> <<>>, names |-> <<>>,
           separate_pages |-> TRUE, include_images |-> TRUE, raised |-> FALSE,
           blocks |-> <<>>]

NoBatch == [kind |-> "none", model_found |-> TRUE, files |-> <<>>, answers |-> <<>>,
            sent |-> 0, before |-> <<>>, calls |-> <<>>, instantiable |-> {},
            tried |-> <<>>, model |-> "none", error |-> "none"]

AppIdle ==
    /\ authenticated = FALSE
    /\ user_id = 0
    /\ username = ""
    /\ all_extracted_texts = <<>>
    /\ processed_images = <<>>
    /\ uploaded_files = <<>>
    /\ include_images_in_docx = TRUE
    /\ separate_pages = TRUE
    /\ txt_content = <<>>
    /\ exported = NoExport
    /\ show_formatting_panel = FALSE
    /\ lastBatch = NoBatch
    /\ notice = ""
    /\ docx = NoDocx

\* The download button of a run is gone in the next.
NoDownload ==
    txt_content' = <<>> /\ exported' = NoExport /\ docx' = NoDocx /\ notice' = ""

\* A run of the script in which Process All Images is not pressed.
NoBatchRun == lastBatch' = NoBatch

\* A run of the script that does not call the gateway.
NoStoreCall ==
    /\ lastCall' = NoCall
    /\ saveRet' = 0
    /\ listRet' = <<>>
    /\ deleteRet' = FALSE
    /\ UNCHANGED <<documents, next_id, clock, ledger>>

\* show_login, with a username and password that authenticate_user accepts.
Login(user) ==
    /\ ~authenticated
    /\ authenticated' = TRUE
    /\ user_id' = user
    /\ username' = Usernames[user]
    /\ NoDownload
    /\ NoBatchRun
    /\ NoStoreCall
    /\ UNCHANGED <<sessionVars, widgetVars, notAppVars>>

\* The user puts the files in the uploader.
UploadFiles ==
    /\ authenticated
    /\ uploaded_files # Files
    /\ uploaded_files' = Files
    /\ NoDownload
    /\ NoBatchRun
    /\ NoStoreCall
    /\ UNCHANGED <<loginVars, sessionVars, include_images_in_docx, separate_pages,
                   show_formatting_panel, notAppVars>>

\* next(f for f in uploaded_files if f.name == selected_image)
SelectedFile(selected_image) ==
    uploaded_files[MinOf({k \in 1..Len(uploaded_files) :
                             uploaded_files[k].name = selected_image})]

\* The button "Process <selected image>".
ProcessSelectedImage(selected_image, answer) ==
    /\ authenticated
    /\ uploaded_files # <<>>
    /\ selected_image \in {uploaded_files[k].name : k \in 1..Len(uploaded_files)}
    /\ Len(all_extracted_texts) < MaxItems
    /\ answer \in Answers(SelectedFile(selected_image).image)
    /\ LET selected_file == SelectedFile(selected_image)
           image         == selected_file.image
           stripped      == IF answer.text # <<>> THEN Strip(answer.text) ELSE <<>>
           cleaned       == clean_extracted_text(stripped)
       IN  IF answer.error = "none" /\ cleaned # <<>>
           THEN /\ all_extracted_texts' = Append(all_extracted_texts, cleaned)
                /\ processed_images' =
                       Append(processed_images, <<selected_file.name, image>>)
           ELSE UNCHANGED sessionVars
    /\ NoDownload
    /\ NoBatchRun
    /\ NoStoreCall
    /\ UNCHANGED <<loginVars, widgetVars, notAppVars>>

\* The button "Clear Current Session".
ClearCurrentSession ==
    /\ authenticated
    /\ all_extracted_texts' = <<>>
    /\ processed_images' = <<>>
    /\ NoDownload
    /\ NoBatchRun
    /\ NoStoreCall
    /\ UNCHANGED <<loginVars, widgetVars, notAppVars>>

\* The settings the Save Document button stores.
CurrentSettings ==
    [target_language |-> target_language, ocr_mode |-> ocr_mode,
     preserve_formatting |-> preserve_formatting,
     include_images_in_docx |-> include_images_in_docx,
     separate_pages |-> separate_pages]

\* What the user may have typed in "Document Name:".
DocNames == {<<"D", "o", "c">>, <<" ", "D", "o", "c", " ">>, <<" ">>, <<>>}

\* The run of a "Save Document" that asked for a name and called nothing.
NameAsked ==
    [NoCall EXCEPT !.user_id = user_id, !.outcome = "blank name",
                   !.error = "Please enter a document name", !.before = documents]

\* The button "Save Document": the gateway is called with the name stripped,
\* unless the name is blank; there is no outcome and no reading of the clock
\* to choose then.
SaveDocumentButton(doc_name, outcome, now) ==
    /\ authenticated
    /\ uploaded_files # <<>>
    /\ all_extracted_texts # <<>>
    /\ next_id <= MaxSaves
    /\ IF Strip(doc_name) # <<>>
       THEN LET image_names ==
                    [k \in 1..Len(processed_images) |-> processed_images[k][1]]
            IN  save_document(user_id, Strip(doc_name), all_extracted_texts,
                              image_names, CurrentSettings, outcome, now)
       ELSE /\ outcome = "ok"
            /\ now = clock
            /\ lastCall' = NameAsked
            /\ saveRet' = 0
            /\ listRet' = <<>>
            /\ deleteRet' = FALSE
            /\ UNCHANGED <<documents, next_id, clock, ledger>>
    /\ NoDownload
    /\ NoBatchRun
    /\ UNCHANGED <<loginVars, sessionVars, widgetVars, notAppVars>>

\* The length of the rule under the header of an export.
RuleLength == 60

\* "-" * 60 + "\n\n"
Rule == [k \in 1..RuleLength |-> "-"] \o <<"\n", "\n">>

\* A plausible slip: the heading counts the images from 0.
QuickItemFromZero(idx, filename) ==
    <<"Image ", ToString(idx), ": ">> \o filename \o <<"\n">>
    \o all_extracted_texts[idx + 1] \o <<"\n", "\n">>

\* What the loop of the quick export adds for the image of index idx (from 0).
QuickItem(idx, filename) ==
    <<"Image ", ToString(idx + 1), ": ">> \o filename \o <<"\n">>
    \o all_extracted_texts[idx + 1] \o <<"\n", "\n">>

\* The text of "Quick Download as TXT"; the date is written as the clock reads.
QuickTxt ==
    <<"Gemini Vision OCR - Multi-Image", "\n",
      "Extraction Date: ", ToString(clock), "\n",
      "Target Language: ", target_language, "\n",
      "OCR Mode: ", ocr_mode, "\n">>
    \o Rule
    \o Concat([k \in 1..Len(processed_images) |->
                  QuickItem(k - 1, processed_images[k][1])])

\* The button "Quick Download as TXT".
QuickDownloadTxt ==
    /\ authenticated
    /\ uploaded_files # <<>>
    /\ all_extracted_texts # <<>>
    /\ txt_content' = QuickTxt
    /\ notice' = ""
    /\ exported' = [kind |-> "quick", doc_id |-> 0]
    /\ docx' = NoDocx
    /\ NoBatchRun
    /\ NoStoreCall
    /\ UNCHANGED <<loginVars, sessionVars, widgetVars, notAppVars>>

\* What the loop of a saved document's export adds for the text of index idx.
SavedItem(idx, item_text, image_names) ==
    <<"Image ", ToString(idx + 1), ": ">> \o image_names[idx + 1] \o <<"\n">>
    \o item_text \o <<"\n", "\n">>

\* The text of "Download TXT" for a document of the list of My Documents.
SavedTxt(doc) ==
    LET doc_name        == doc[2]
        extracted_texts == json_loads_list(doc[3])
        image_names     == json_loads_list(doc[4])
        settings        == json_loads_settings(doc[5])
        created_at      == doc[6]
    IN  <<"Document: ">> \o doc_name
        \o <<"\n",
          "Created: ", ToString(created_at), "\n",
          "Language: ", SettingsGet(settings, "target_language"), "\n",
          "OCR Mode: ", SettingsGet(settings, "ocr_mode"), "\n">>
        \o Rule
        \o Concat([k \in 1..Len(extracted_texts) |->
                      SavedItem(k - 1, extracted_texts[k], image_names)])

\* My Documents lists the user's documents, and the user presses "Download TXT"
\* on the i-th of them when there is one.
DownloadSavedTxt(i, outcome) ==
    /\ authenticated
    /\ get_user_documents(user_id, outcome)
    /\ IF i <= Len(listRet')
       THEN /\ txt_content' = SavedTxt(listRet'[i])
            /\ exported' = [kind |-> "saved", doc_id |-> listRet'[i][1]]
            /\ docx' = NoDocx
       ELSE /\ i = 1
            /\ txt_content' = <<>>
            /\ exported' = NoExport
            /\ docx' = NoDocx
    /\ notice' = ""
    /\ NoBatchRun
    /\ UNCHANGED <<loginVars, sessionVars, widgetVars, notAppVars>>

\* My Documents lists the user's documents, and the user presses "Delete" on
\* the i-th of them: delete_document is called, "Document deleted!" is said and
\* the script runs again.
DeleteSavedDocument(i, outcome) ==
    /\ authenticated
    /\ \E rows \in Results(SelectRows(documents, user_id)) :
           /\ i <= Len(rows)
           /\ delete_document(user_id, rows[i].id, outcome)
    /\ notice' = "Document deleted!"
    /\ txt_content' = <<>>
    /\ exported' = NoExport
    /\ docx' = NoDocx
    /\ NoBatchRun
    /\ UNCHANGED <<loginVars, sessionVars, widgetVars, notAppVars>>

\* A plausible slip: the logout leaves the texts and images in the session.
LogoutKeepsItems ==
    /\ authenticated
    /\ authenticated' = FALSE
    /\ user_id' = 0
    /\ username' = ""
    /\ NoDownload
    /\ NoBatchRun
    /\ NoStoreCall
    /\ UNCHANGED <<sessionVars, widgetVars, notAppVars>>

\* The button "Logout".
Logout ==
    /\ authenticated
    /\ authenticated' = FALSE
    /\ user_id' = 0
    /\ username' = ""
    /\ all_extracted_texts' = <<>>
    /\ processed_images' = <<>>
    /\ NoDownload
    /\ NoBatchRun
    /\ NoStoreCall
    /\ UNCHANGED <<widgetVars, notAppVars>>

\* The button "Advanced Formatting Options", drawn under the extracted texts.
ToggleFormattingPanel ==
    /\ authenticated
    /\ uploaded_files # <<>>
    /\ all_extracted_texts # <<>>
    /\ show_formatting_panel' = ~show_formatting_panel
    /\ NoDownload
    /\ NoBatchRun
    /\ NoStoreCall
    /\ UNCHANGED <<loginVars, sessionVars, uploaded_files, include_images_in_docx,
                   separate_pages, notAppVars>>

\* models_to_try
ModelsToTry == <<"gemini-2.0-flash-exp", "gemini-2.5-flash", "gemini-2.5-flash-lite">>

\* The sets of identifiers that genai.GenerativeModel can instantiate.
Instantiable == SUBSET {ModelsToTry[k] : k \in 1..Len(ModelsToTry)}

\* Two of them: no model at all, and every model but the first.
SomeInstantiable == {{}, {ModelsToTry[2], ModelsToTry[3]}}

RECURSIVE TryModelsPastSuccess(_, _, _)
\* A plausible slip: the loop goes on after a success and the last model that
\* can be instantiated is returned.
TryModelsPastSuccess(instantiable, k, tried) ==
    IF k > Len(ModelsToTry)
    THEN [model |-> "none", tried |-> tried,
          error |-> "No compatible Gemini model found"]
    ELSE IF /\ ModelsToTry[k] \in instantiable
            /\ \A j \in (k + 1)..Len(ModelsToTry) : ModelsToTry[j] \notin instantiable
         THEN [model |-> ModelsToTry[k], tried |-> Append(tried, ModelsToTry[k]),
               error |-> "none"]
    ELSE TryModelsPastSuccess(instantiable, k + 1, Append(tried, ModelsToTry[k]))

RECURSIVE TryModels(_, _, _)
\* The loop of get_model from the k-th identifier on: the first model that can
\* be instantiated is returned; an exception is raised when the list is over.
TryModels(instantiable, k, tried) ==
    IF k > Len(ModelsToTry)
    THEN [model |-> "none", tried |-> tried,
          error |-> "No compatible Gemini model found"]
    ELSE IF ModelsToTry[k] \in instantiable
         THEN [model |-> ModelsToTry[k], tried |-> Append(tried, ModelsToTry[k]),
               error |-> "none"]
    ELSE TryModels(instantiable, k + 1, Append(tried, ModelsToTry[k]))

\* get_model(): the model, or the exception, and the identifiers tried.
get_model(instantiable) == TryModels(instantiable, 1, <<>>)

\* What generate_content can do with a picture once get_model has returned.
ImageAnswers(image) == {a \in Answers(image) : a.error # "no model"}

\* The answers a batch over these files can get, one per file.
BatchAnswers(files) ==
    {answers \in [1..Len(files) -> UNION {ImageAnswers(files[k].image) : k \in 1..Len(files)}] :
        \A k \in 1..Len(files) : answers[k] \in ImageAnswers(files[k].image)}

\* Those of them in which every file is answered, with its text or with nothing.
PlainAnswers(files) ==
    {answers \in BatchAnswers(files) :
        \A k \in 1..Len(files) :
            answers[k].error = "none" /\ answers[k].text \in {<<>>, TextOn(files[k].image)}}

\* response.text.strip() if response.text else "", then clean_extracted_text
TextOf(answer) ==
    clean_extracted_text(IF answer.text # <<>> THEN Strip(answer.text) ELSE <<>>)

\* A plausible slip: the image is kept whether or not a text was found.
AccumulatedImageAlways(acc, file, cleaned) ==
    [texts  |-> IF cleaned # <<>> THEN Append(acc.texts, cleaned) ELSE acc.texts,
     images |-> Append(acc.images, <<file.name, file.image>>),
     sent   |-> acc.sent + 1,
     calls  |-> Append(acc.calls, file.name)]

\* if text: both lists are appended to.
Accumulated(acc, file, cleaned) ==
    IF cleaned # <<>>
    THEN [texts  |-> Append(acc.texts, cleaned),
          images |-> Append(acc.images, <<file.name, file.image>>),
          sent   |-> acc.sent + 1,
          calls  |-> Append(acc.calls, file.name)]
    ELSE [acc EXCEPT !.sent = @ + 1, !.calls = Append(@, file.name)]

RECURSIVE BatchFromStopAtEmpty(_, _, _, _)
\* A plausible slip: an image without text ends the loop.
BatchFromStopAtEmpty(files, answers, k, acc) ==
    IF k > Len(files) THEN acc
    ELSE IF answers[k].error # "none" \/ TextOf(answers[k]) = <<>>
         THEN [acc EXCEPT !.sent = @ + 1, !.calls = Append(@, files[k].name)]
    ELSE BatchFromStopAtEmpty(files, answers, k + 1,
                              Accumulated(acc, files[k], TextOf(answers[k])))

RECURSIVE BatchFromPastException(_, _, _, _)
\* A plausible slip: the exception is caught inside the loop, which goes on.
BatchFromPastException(files, answers, k, acc) ==
    IF k > Len(files) THEN acc
    ELSE IF answers[k].error # "none"
         THEN BatchFromPastException(files, answers, k + 1,
                                     [acc EXCEPT !.sent = @ + 1,
                                                 !.calls = Append(@, files[k].name)])
    ELSE BatchFromPastException(files, answers, k + 1,
                                Accumulated(acc, files[k], TextOf(answers[k])))

RECURSIVE BatchFromRetryEmpty(_, _, _, _)
\* A plausible slip: an image without text is sent to the model once more.
BatchFromRetryEmpty(files, answers, k, acc) ==
    IF k > Len(files) THEN acc
    ELSE IF answers[k].error # "none"
         THEN [acc EXCEPT !.sent = @ + 1, !.calls = Append(@, files[k].name)]
    ELSE IF TextOf(answers[k]) = <<>>
         THEN BatchFromRetryEmpty(files, answers, k + 1,
                  [Accumulated(acc, files[k], <<>>) EXCEPT
                      !.calls = Append(@, files[k].name)])
    ELSE BatchFromRetryEmpty(files, answers, k + 1,
                             Accumulated(acc, files[k], TextOf(answers[k])))

RECURSIVE BatchFrom(_, _, _, _)
\* The loop of Process All Images from file k on: an exception of
\* generate_content leaves the loop.
BatchFrom(files, answers, k, acc) ==
    IF k > Len(files) THEN acc
    ELSE IF answers[k].error # "none"
         THEN [acc EXCEPT !.sent = @ + 1, !.calls = Append(@, files[k].name)]
    ELSE BatchFrom(files, answers, k + 1, Accumulated(acc, files[k], TextOf(answers[k])))

\* The button "Process All Images": when get_model returns a model, the two
\* lists are emptied and the files sent to the model one after the other; when
\* it raises, the error is shown and nothing else is done.
ProcessAllImages(instantiable, answers) ==
    /\ authenticated
    /\ uploaded_files # <<>>
    /\ answers \in BatchAnswers(uploaded_files)
    /\ LET got == get_model(instantiable)
           model_found == got.model # "none"
           run == IF model_found
                  THEN BatchFrom(uploaded_files, answers, 1,
                                 [texts |-> <<>>, images |-> <<>>, sent |-> 0,
                                  calls |-> <<>>])
                  ELSE [texts |-> all_extracted_texts, images |-> processed_images,
                        sent |-> 0, calls |-> <<>>]
       IN  /\ all_extracted_texts' = run.texts
           /\ processed_images' = run.images
           /\ lastBatch' = [kind |-> "all", model_found |-> model_found,
                            files |-> uploaded_files,
                            answers |-> SubSeq(answers, 1, run.sent),
                            sent |-> run.sent,
                            before |-> <<all_extracted_texts, processed_images>>,
                            calls |-> run.calls,
                            instantiable |-> instantiable,
                            tried |-> got.tried, model |-> got.model,
                            error |-> got.error]
    /\ NoDownload
    /\ NoStoreCall
    /\ UNCHANGED <<loginVars, widgetVars, notAppVars>>

(***************************************************************************)
(* create_formatted_document. The document is the sequence of what is      *)
(* added to it: paragraphs, headings, pictures and page breaks. Fonts,     *)
(* margins, line spacing and page numbers are left out.                    *)
(***************************************************************************)
Block(kind, content, bold) == [kind |-> kind, content |-> content, bold |-> bold]

EmptyParagraph == Block("body", <<>>, FALSE)

UpperCase ==
    {"A", "B", "C", "D", "E", "F", "G", "H", "I", "J", "K", "L", "M", "N", "O", "P", "Q",
     "R", "S", "T", "U", "V", "W", "X", "Y", "Z"}

LowerCase ==
    {"a", "b", "c", "d", "e", "f", "g", "h", "i", "j", "k", "l", "m", "n", "o", "p", "q",
     "r", "s", "t", "u", "v", "w", "x", "y", "z"}

\* str.isupper(): a cased character, and no cased character in lower case
IsUpper(str) ==
    /\ \E k \in 1..Len(str) : str[k] \in UpperCase
    /\ \A k \in 1..Len(str) : str[k] \notin LowerCase

\* The title, the four lines of metadata and an empty line.
DocxHeader(doc_name, settings) ==
    <<Block("title", <<"Gemini Vision OCR - Multi-Image">>, FALSE),
      Block("body", <<"Document: ">> \o doc_name, FALSE),
      Block("body", <<"Extraction Date: ", ToString(clock)>>, FALSE),
      Block("body", <<"Language: ", SettingsGet(settings, "target_language")>>, FALSE),
      Block("body", <<"OCR Mode: ", SettingsGet(settings, "ocr_mode")>>, FALSE),
      EmptyParagraph>>

\* The paragraph of one line of a text.
LineParagraph(para_text) ==
    IF Strip(para_text) # <<>>
    THEN Block("body", para_text,
               IsUpper(Strip(para_text)) /\ Len(Strip(para_text)) < 100)
    ELSE EmptyParagraph

\* The paragraphs of the text of an item.
TextParagraphs(item_text, preserve_original_formatting) ==
    IF preserve_original_formatting /\ item_text # <<>>
    THEN LET paragraphs == SplitLines(item_text)
         IN  [k \in 1..Len(paragraphs) |-> LineParagraph(paragraphs[k])]
    ELSE <<Block("body", item_text, FALSE)>>

\* The picture under the heading of the item of index idx (from 0): that of
\* entry idx of the session's images when there is one; a line in brackets when
\* it cannot be written as PNG.
PictureBlocks(idx, include_images, unsavable) ==
    IF include_images /\ idx < Len(processed_images)
    THEN IF processed_images[idx + 1][2] \in unsavable
         THEN <<Block("body", <<"[Could not embed image: ", "cannot write as PNG", "]">>,
                      FALSE)>>
         ELSE <<Block("picture", <<processed_images[idx + 1][2]>>, FALSE), EmptyParagraph>>
    ELSE <<>>

\* A plausible slip: the page break is added before the first item too.
PageBreakBeforeEvery(separate, idx) ==
    IF separate THEN <<Block("page break", <<>>, FALSE)>> ELSE <<>>

\* if separate_pages and idx > 0: doc.add_page_break()
PageBreakBefore(separate, idx) ==
    IF separate /\ idx > 0 THEN <<Block("page break", <<>>, FALSE)>> ELSE <<>>

RECURSIVE AssembleFrom(_, _, _)
\* The loop over the texts from index idx (from 0) on; image_names[idx] raises
\* IndexError when there is no such name.
AssembleFrom(a, idx, blocks) ==
    IF idx >= Len(a.extracted_texts) THEN [raised |-> FALSE, blocks |-> blocks]
    ELSE LET break == PageBreakBefore(a.separate_pages, idx)
         IN  IF idx >= Len(a.image_names)
             THEN [raised |-> TRUE, blocks |-> blocks \o break]
             ELSE AssembleFrom(a, idx + 1,
                      blocks \o break
                      \o <<Block("heading",
                                 <<"Image ", ToString(idx + 1), ": ">> \o a.image_names[idx + 1],
                                 FALSE)>>
                      \o PictureBlocks(idx, a.include_images, a.unsavable)
                      \o TextParagraphs(a.extracted_texts[idx + 1],
                                        a.preserve_original_formatting)
                      \o (IF idx < Len(a.extracted_texts) - 1
                          THEN <<EmptyParagraph>> ELSE <<>>))

\* create_formatted_document(doc_name, extracted_texts, image_names, settings,
\* separate_pages=, include_images=, preserve_original_formatting=): the document,
\* or the exception raised while it was built.
create_formatted_document(a) ==
    AssembleFrom(a, 0, DocxHeader(a.doc_name, a.settings))

\* What is recorded of a call of create_formatted_document.
DocxOf(kind, doc_id, a) ==
    LET made == create_formatted_document(a)
    IN  [kind |-> kind, doc_id |-> doc_id, texts |-> a.extracted_texts,
         names |-> a.image_names, separate_pages |-> a.separate_pages,
         include_images |-> a.include_images, raised |-> made.raised,
         blocks |-> made.blocks]

\* The lists a caller of create_formatted_document passes.
AssemblerTexts == {<<>>, <<TextOn("picture A")>>, <<TextOn("picture B"), TextOn("picture A")>>}

AssemblerNames == {<<>>, <<FileA.name>>, <<FileB.name, FileA.name>>}

\* The pictures that cannot be written as PNG.
Unsavable == {{}, {"picture B"}}

\* A caller assembles a document from these lists.
AssembleDocument(texts, names, separate, include, preserve, unsavable) ==
    /\ docx' = DocxOf("call", 0,
                      [doc_name |-> <<"D", "o", "c">>, extracted_texts |-> texts,
                       image_names |-> names, settings |-> SampleSettings,
                       separate_pages |-> separate, include_images |-> include,
                       preserve_original_formatting |-> preserve,
                       unsavable |-> unsavable])
    /\ txt_content' = <<>>
    /\ exported' = NoExport
    /\ notice' = ""
    /\ NoBatchRun
    /\ NoStoreCall
    /\ UNCHANGED <<loginVars, sessionVars, widgetVars, notAppVars>>

\* settings.get(key, default)
SettingsGetOr(d, key, default) == IF key \in DOMAIN d THEN d[key] ELSE default

\* What show_formatting_panel() may return of the three checkboxes that the
\* assembled blocks depend on.
FormatSettings ==
    [separate_pages : BOOLEAN, include_images : BOOLEAN,
     preserve_original_formatting : BOOLEAN]

\* doc_name or f"OCR_Document_{datetime.now()...}"
QuickDocName(doc_name) ==
    IF doc_name # <<>> THEN doc_name ELSE <<"OCR_Document_", ToString(clock)>>

\* The keyword arguments of the quick export: what the formatting panel returns
\* when it is shown, else the values of the sidebar and the defaults.
QuickFormat ==
    IF show_formatting_panel
    THEN FormatSettings
    ELSE {[separate_pages |-> separate_pages, include_images |-> include_images_in_docx,
           preserve_original_formatting |-> TRUE]}

\* The button "Quick Download as DOCX". An exception of the assembler is shown
\* as an error and nothing is offered.
QuickDownloadDocx(doc_name, format_settings, unsavable) ==
    /\ authenticated
    /\ uploaded_files # <<>>
    /\ all_extracted_texts # <<>>
    /\ format_settings \in QuickFormat
    /\ LET image_names == [k \in 1..Len(processed_images) |-> processed_images[k][1]]
           settings == [target_language |-> target_language, ocr_mode |-> ocr_mode]
       IN  docx' = DocxOf("quick", 0,
                      [doc_name |-> QuickDocName(doc_name),
                       extracted_texts |-> all_extracted_texts,
                       image_names |-> image_names, settings |-> settings,
                       separate_pages |-> format_settings.separate_pages,
                       include_images |-> format_settings.include_images,
                       preserve_original_formatting |->
                           format_settings.preserve_original_formatting,
                       unsavable |-> unsavable])
    /\ txt_content' = <<>>
    /\ exported' = NoExport
    /\ notice' = ""
    /\ NoBatchRun
    /\ NoStoreCall
    /\ UNCHANGED <<loginVars, sessionVars, widgetVars, notAppVars>>

\* What "Download DOCX" of a document of the list of My Documents assembles.
SavedDocx(doc, unsavable) ==
    LET settings == json_loads_settings(doc[5])
    IN  DocxOf("saved", doc[1],
               [doc_name |-> doc[2],
                extracted_texts |-> json_loads_list(doc[3]),
                image_names |-> json_loads_list(doc[4]),
                settings |-> settings,
                separate_pages |-> SettingsGetOr(settings, "separate_pages", TRUE),
                include_images |-> SettingsGetOr(settings, "include_images_in_docx", TRUE),
                preserve_original_formatting |-> TRUE,
                unsavable |-> unsavable])

\* My Documents lists the user's documents, and the user presses "Download
\* DOCX" on the i-th of them when there is one.
DownloadSavedDocx(i, outcome, unsavable) ==
    /\ authenticated
    /\ get_user_documents(user_id, outcome)
    /\ IF i <= Len(listRet')
       THEN docx' = SavedDocx(listRet'[i], unsavable)
       ELSE /\ i = 1
            /\ unsavable = {}
            /\ docx' = NoDocx
    /\ txt_content' = <<>>
    /\ exported' = NoExport
    /\ notice' = ""
    /\ NoBatchRun
    /\ UNCHANGED <<loginVars, sessionVars, widgetVars, notAppVars>>

(***************************************************************************)
(* What the claims about clean_extracted_text speak of.                    *)
(***************************************************************************)
TagLetters == {"u", "b", "i"}

\* The plain-text marker each of the three tags stands for.
Marker(letter) ==
    CASE letter = "u" -> <<"_">> [] letter = "b" -> <<"*", "*">> [] OTHER -> <<"*">>

\* No '<' and no '>' character at all.
NoChevron(s) == \A k \in 1..Len(s) : s[k] \notin {"<", ">"}

\* A complete tag: a '<', one or more characters other than '>', and a '>'.
HasTag(s) ==
    \E p \in 1..Len(s) : \E q \in (p + 2)..Len(s) :
        /\ s[p] = "<"
        /\ s[q] = ">"
        /\ \A r \in (p + 1)..(q - 1) : s[r] # ">"

\* The characters of s that are not whitespace, in order.
NonSpace(s) == SelectSeq(s, LAMBDA c : ~IsSpace(c))

\* For s starting with '<': where the closing tag of the pair s starts with
\* begins, 0 when s does not start with an opening tag, a body without '<' and
\* '>' (and, unless multiline, without a line break) and the matching closing tag.
PairEnd(s, multiline) ==
    LET N == {k \in 2..Len(s) : s[k] = "<"}
        j == IF N = {} THEN 0 ELSE MinOf(N)
    IN  IF /\ Len(s) >= 3
           /\ Lower(s[2]) \in TagLetters
           /\ s[3] = ">"
           /\ j # 0
           /\ MatchesAt(s, j, CloseTag(Lower(s[2])))
           /\ \A k \in 4..(j - 1) : s[k] # ">" /\ (multiline \/ s[k] # "\n")
        THEN j ELSE 0

RECURSIVE IsSimpleMarkup(_, _)
\* s is text in which every '<' belongs to such a pair.
IsSimpleMarkup(s, multiline) ==
    IF s = <<>> THEN TRUE
    ELSE IF Head(s) # "<" THEN IsSimpleMarkup(Tail(s), multiline)
    ELSE LET j == PairEnd(s, multiline)
         IN  j # 0 /\ IsSimpleMarkup(SubSeq(s, j + 4, Len(s)), multiline)

RECURSIVE Rendered(_, _)
\* Such a text with every pair replaced by its markers around the body.
Rendered(s, multiline) ==
    IF s = <<>> THEN <<>>
    ELSE IF Head(s) # "<" THEN <<Head(s)>> \o Rendered(Tail(s), multiline)
    ELSE LET j == PairEnd(s, multiline)
             m == Marker(Lower(s[2]))
         IN  m \o SubSeq(s, 4, j - 1) \o m \o Rendered(SubSeq(s, j + 4, Len(s)), multiline)

\* s holds at least one pair of the three tags.
HasPair(s, multiline) ==
    \E p \in 1..Len(s) : s[p] = "<" /\ PairEnd(SubSeq(s, p, Len(s)), multiline) # 0

\* How many of the first characters of line l are in S.
LeadingRun(l, S) == Cardinality({k \in 1..Len(l) : \A j \in 1..k : l[j] \in S})

\* Line l holds a character that is not whitespace.
HasContent(l) == \E k \in 1..Len(l) : ~IsSpace(l[k])

SmallerOf(a, b) == IF a <= b THEN a ELSE b

\* C1 as stated, checked wherever the response holds a tag pair: the pairs of
\* a response whose only '<' are those of single-line pairs are rewritten to
\* their markers, and the cleaned text holds no '<' and no '>' at all.
C1_NoChevronLeft ==
    (cleanPc # "receiving" /\ HasPair(response, FALSE)) =>
        /\ NoChevron(text)
        /\ IsSimpleMarkup(response, FALSE) =>
               NonSpace(text) = NonSpace(Rendered(response, FALSE))

\* C1, amended: in a response whose only '<' are those of <u>, <b>, <i> pairs
\* with a body on one line, every pair is rewritten to _.._, **..**, *..*
\* (the other characters are kept, up to the whitespace of the re-indentation);
\* and for every response the cleaned text holds no complete tag: what may be
\* left is a '<' or '>' that is not part of a tag.
C1_PairsRewrittenNoTagLeft ==
    cleanPc # "receiving" =>
        /\ ~HasTag(text)
        /\ IsSimpleMarkup(response, FALSE) =>
               NonSpace(text) = NonSpace(Rendered(response, FALSE))

\* C1's case: a response with a tag pair and a '>' of its own has been
\* cleaned: the pair is rewritten and the '>' is still there.
C1_Witness ==
    /\ cleanPc = "cleaned"
    /\ HasPair(response, FALSE)
    /\ IsSimpleMarkup(response, FALSE)
    /\ ~NoChevron(text)
    /\ \E k \in 1..Len(text) : text[k] = "_"

\* C2: cleaning is idempotent: cleaning the cleaned text gives the cleaned
\* text again.
C2_Idempotent == cleanPc = "recleaned" => text2 = text

\* C2's case: a response with a tag and an indented line was cleaned twice,
\* and the first pass changed it.
C2_Witness ==
    /\ cleanPc = "recleaned"
    /\ HasTag(response)
    /\ \E k \in 1..Len(response) : response[k] = "\t"
    /\ text # response
    /\ text # <<>>

\* C3 as stated: line by line, the output has as many leading spaces as the
\* input line has leading spaces and tabs.
C3_LeadingSpacesOfEveryLine ==
    cleanPc # "receiving" =>
        LET in  == SplitLines(response)
            out == SplitLines(text)
        IN  \A i \in 1..SmallerOf(Len(in), Len(out)) :
                LeadingRun(out[i], {" "}) = LeadingRun(in[i], {" ", "\t"})

\* C3, amended: the lines are those of the text after the tag rules (the
\* input itself when it holds no tag). A line with content comes out with as
\* many leading spaces, and no tab, as it had leading spaces and tabs; a line
\* of whitespace only comes out empty.
C3_LeadingSpacesOfContentLines ==
    cleanPc # "receiving" =>
        LET in  == SplitLines(StripMarkup(response))
            out == SplitLines(text)
        IN  /\ NoChevron(response) => in = SplitLines(response)
            /\ Len(out) = Len(in)
            /\ \A i \in 1..Len(in) :
                   IF HasContent(in[i])
                   THEN /\ LeadingRun(out[i], {" "}) = LeadingRun(in[i], {" ", "\t"})
                        /\ LeadingRun(out[i], {" ", "\t"}) = LeadingRun(out[i], {" "})
                   ELSE out[i] = <<>>

\* C3's case: a cleaned response with a line indented by whitespace that
\* holds a tab, before its content; the line comes out indented by spaces.
C3_Witness ==
    /\ cleanPc = "cleaned"
    /\ \E i \in 1..Len(SplitLines(response)) :
           LET l == SplitLines(response)[i]
           IN  /\ NoChevron(l) /\ HasContent(l)
               /\ \E k \in 1..LeadingRun(l, {" ", "\t"}) : l[k] = "\t"
               /\ i <= Len(SplitLines(text))
               /\ LeadingRun(SplitLines(text)[i], {" "}) >= 1

\* C4: a pair whose body holds a line break is rewritten to the markers
\* around the body, like a pair on one line.
C4_MultiLineBodiesRewritten ==
    (cleanPc # "receiving" /\ IsSimpleMarkup(response, TRUE)) =>
        NonSpace(text) = NonSpace(Rendered(response, TRUE))


(***************************************************************************)
(* What the claims about create_prompt speak of.                           *)
(***************************************************************************)
\* The places where sub occurs in s as a run of consecutive words.
OccurrencesOf(s, sub) ==
    {p \in 1..(Len(s) - Len(sub) + 1) : SubSeq(s, p, p + Len(sub) - 1) = sub}

Contains(s, sub) == OccurrencesOf(s, sub) # {}

IsPrefix(pre, s) == Len(pre) <= Len(s) /\ SubSeq(s, 1, Len(pre)) = pre

IsSuffix(suf, s) ==
    Len(suf) <= Len(s) /\ SubSeq(s, Len(s) - Len(suf) + 1, Len(s)) = suf

\* What a prompt holds after its formatting directive and before its closing
\* instruction.
AfterFormatting(p, preserve) ==
    LET formatting == IF preserve THEN FormattingRules ELSE ParagraphDirective
        at == OccurrencesOf(p, formatting)
    IN  IF at = {} \/ ~IsSuffix(ClosingInstruction, p) THEN <<>>
        ELSE SubSeq(p, MinOf(at) + Len(formatting), Len(p) - Len(ClosingInstruction))

\* C5: the prompt holds "Translate the extracted text to <L>." exactly when
\* the target language L is not "Same as original"; the prompt of the legal
\* mode without translation and with preserved formatting holds "numbering
\* exactly" and not the word "Translate".
C5_TranslateIffLanguageChosen ==
    promptPc = "built" =>
        /\ Contains(prompt, <<"Translate", "the", "extracted", "text", "to",
                              target_language, ".">>)
               <=> target_language # "Same as original"
        /\ ( /\ ocr_mode = "Legal/Official Document"
             /\ target_language = "Same as original"
             /\ preserve_formatting )
               => /\ Contains(prompt, <<"numbering", "exactly">>)
                  /\ ~Contains(prompt, <<"Translate">>)

\* C5's case: a prompt built for French holds the directive that names French.
C5_Witness ==
    /\ promptPc = "built"
    /\ target_language = "French"
    /\ Contains(prompt, <<"Translate", "the", "extracted", "text", "to", "French", ".">>)

\* C6: with fix_grammar or include_confidence set, the prompt holds a directive
\* for it after the formatting directive and before the closing instruction,
\* and the one of include_confidence names the [?] mark.
C6_GrammarAndConfidenceDirectives ==
    promptPc = "built" =>
        /\ (fix_grammar \/ include_confidence)
               => AfterFormatting(prompt, preserve_formatting) # <<>>
        /\ include_confidence
               => Contains(AfterFormatting(prompt, preserve_formatting), <<"[", "?", "]">>)

\* C7: a prompt is the base sentence of its mode, then the translation
\* directive if a language is chosen, then the formatting rules or else the
\* paragraph directive (one of them, once), then the closing instruction, and
\* nothing else: the selections determine it.
C7_SegmentsInFixedOrder ==
    promptPc = "built" =>
        LET base        == BasePrompt(ocr_mode)
            translation == IF target_language = "Same as original" THEN <<>>
                           ELSE <<"Translate", "the", "extracted", "text", "to",
                                  target_language, ".">>
            formatting  == IF preserve_formatting THEN FormattingRules
                           ELSE ParagraphDirective
            afterBase   == Len(base) + Len(translation)
        IN  /\ IsPrefix(base, prompt)
            /\ SubSeq(prompt, Len(base) + 1, afterBase) = translation
            /\ Cardinality(OccurrencesOf(prompt, FormattingRules))
                   = (IF preserve_formatting THEN 1 ELSE 0)
            /\ Cardinality(OccurrencesOf(prompt, ParagraphDirective))
                   = (IF preserve_formatting THEN 0 ELSE 1)
            /\ OccurrencesOf(prompt, formatting) = {afterBase + 1}
            /\ OccurrencesOf(prompt, ClosingInstruction)
                   = {afterBase + Len(formatting) + 1}
            /\ Len(prompt) = afterBase + Len(formatting) + Len(ClosingInstruction)

\* C7's case: a prompt built with a translation and without the formatting
\* rules.
C7_Witness ==
    /\ promptPc = "built"
    /\ ocr_mode = "Handwriting Focus"
    /\ target_language = "German"
    /\ ~preserve_formatting
    /\ IsSuffix(ClosingInstruction, prompt)

(***************************************************************************)
(* What the claims about the document store speak of.                      *)
(***************************************************************************)
\* The ids a user has saved and nobody has deleted, from the history of the calls.
LiveIdsOf(user) == {p[1] : p \in {q \in ledger.saved : q[2] = user}} \ ledger.deleted

\* The ids of the records of a listing.
ListedIds == {listRet[i][1] : i \in 1..Len(listRet)}

\* The listing has a record once, and has it as it was saved.
ListedAsSaved ==
    /\ \A i, j \in 1..Len(listRet) : i # j => listRet[i][1] # listRet[j][1]
    /\ \A i \in 1..Len(listRet) : \E r \in documents : DocTuple(r) = listRet[i]

\* The listing goes from the newest record to the oldest.
ListedNewestFirst ==
    \A i \in 1..Len(listRet), j \in 1..Len(listRet) :
        i < j => listRet[i][6] >= listRet[j][6]

\* The last call asked to delete a record that was another user's.
ForeignDelete ==
    /\ lastCall.op = "delete"
    /\ \E r \in lastCall.before : r.id = lastCall.doc_id /\ r.user_id # lastCall.user_id

\* C9: delete_document(X, Y) for a record Y of another user Z leaves the store as
\* it was, returns False and raises nothing (with no error message when the call
\* reached the store); and any delete removes at most the one record whose id
\* and user both match.
C9_ForeignDeleteIsSilentNoOp ==
    /\ ForeignDelete =>
          /\ documents = lastCall.before
          /\ deleteRet = FALSE
          /\ ~lastCall.raised
          /\ lastCall.outcome = "ok" => lastCall.error = "none"
    /\ lastCall.op = "delete" =>
          /\ documents \subseteq lastCall.before
          /\ Cardinality(lastCall.before \ documents) <= 1
          /\ \A r \in lastCall.before \ documents :
                 r.id = lastCall.doc_id /\ r.user_id = lastCall.user_id

\* A delete that reached the store, asked for another user's record, with the
\* caller's own record in the store too.
C9_Witness ==
    /\ ForeignDelete
    /\ lastCall.outcome = "ok"
    /\ documents = lastCall.before
    /\ deleteRet = FALSE
    /\ \E r \in documents : r.user_id = lastCall.user_id

\* C10, as stated: get_user_documents(owner) returns exactly the records that
\* owner saved and nobody deleted, newest first, and no record of another user.
C10_ListIsExactlyOwnersRecords ==
    lastCall.op = "list" =>
        /\ ListedIds = LiveIdsOf(lastCall.user_id)
        /\ ListedAsSaved
        /\ ListedNewestFirst

\* C10, amended: when the query reaches the store, get_user_documents(owner)
\* returns exactly the records that owner saved and nobody deleted, newest
\* first; when there is no client or the query raises it returns the empty
\* list; and in no case a record of another user.
C10_ListIsOwnersRecordsOrEmpty ==
    lastCall.op = "list" =>
        /\ ListedIds \subseteq LiveIdsOf(lastCall.user_id)
        /\ ListedAsSaved
        /\ ListedNewestFirst
        /\ IF lastCall.outcome = "ok"
           THEN ListedIds = LiveIdsOf(lastCall.user_id)
           ELSE listRet = <<>>

\* A listing of two records saved at different times, while the store holds a
\* record of another user.
C10_Witness ==
    /\ lastCall.op = "list"
    /\ lastCall.outcome = "ok"
    /\ Len(listRet) = 2
    /\ listRet[1][6] > listRet[2][6]
    /\ \E r \in documents : r.user_id # lastCall.user_id

(***************************************************************************)
(* What the claim about the plain-text exports speaks of.                  *)
(***************************************************************************)
\* The items an export is made from, in their order: those of the session for
\* the quick export, those the document was saved with for a saved document.
ExportedItems ==
    IF exported.kind = "quick"
    THEN [i \in 1..Len(processed_images) |->
             [name |-> processed_images[i][1], body |-> all_extracted_texts[i]]]
    ELSE LET saved == CHOOSE d \in ledger.saved : d[1] = exported.doc_id
         IN  [i \in 1..Len(saved[3]) |-> [name |-> saved[4][i], body |-> saved[3][i]]]

\* The heading line of item i.
HeadingOf(i, name) == <<"Image ", ToString(i), ": ">> \o name

RECURSIVE HeadingAt(_, _)
\* The line on which the heading of item i stands: the header takes four lines,
\* the rule one and a blank line follows; an item takes its heading, the lines
\* of its text and a blank line.
HeadingAt(items, i) ==
    IF i = 1 THEN 7
    ELSE HeadingAt(items, i - 1) + Len(SplitLines(items[i - 1].body)) + 2

\* C8: a plain-text export of n items has, after the four lines of the header,
\* the rule of 60 dashes and a blank line, for each item i = 1..n in order one
\* heading line "Image i: <name>", then the lines of the item's text, then a
\* blank line, and nothing else: each text stands after its own heading and
\* before the next.
C8_HeadingTextBlankPerItem ==
    exported.kind # "none" =>
        LET items == ExportedItems
            lines == SplitLines(txt_content)
            n     == Len(items)
        IN  /\ \A k \in 1..4 : lines[k] # <<>>
            /\ lines[5] = [k \in 1..60 |-> "-"]
            /\ lines[6] = <<>>
            /\ Len(lines) = HeadingAt(items, n + 1)
            /\ lines[Len(lines)] = <<>>
            /\ \A i \in 1..n :
                   LET at   == HeadingAt(items, i)
                       body == SplitLines(items[i].body)
                   IN  /\ lines[at] = HeadingOf(i, items[i].name)
                       /\ SubSeq(lines, at + 1, at + Len(body)) = body
                       /\ lines[at + Len(body) + 1] = <<>>

\* A quick export of two items of different names, the first with a text of
\* two lines.
C8_Witness ==
    /\ exported.kind = "quick"
    /\ Len(processed_images) = 2
    /\ processed_images[1][1] # processed_images[2][1]
    /\ Len(SplitLines(all_extracted_texts[1])) = 2
    /\ txt_content # <<>>

(***************************************************************************)
(* What the claim about the round trip through the store speaks of.        *)
(***************************************************************************)
\* What was passed to the save that returned this id, from the history.
PassedTo(id) == CHOOSE d \in ledger.saved : d[1] = id

\* The record is the one of this id, and its decoded texts, names and settings
\* are those passed to the save, with a name per text.
DecodesToPassed(doc, id) ==
    /\ doc[1] = id
    /\ json_loads_list(doc[3]) = PassedTo(id)[3]
    /\ json_loads_list(doc[4]) = PassedTo(id)[4]
    /\ json_loads_settings(doc[5]) = PassedTo(id)[5]
    /\ Len(json_loads_list(doc[3])) = Len(json_loads_list(doc[4]))

\* A list for a user comes right after a successful save for that user.
ListRightAfterSave ==
    /\ lastCall.op = "save"
    /\ saveRet # 0
    /\ lastCall'.op = "list"
    /\ lastCall'.user_id = lastCall.user_id

\* C11, as stated: a list that comes right after a successful save of the same
\* owner returns a record whose decoded settings, texts and names are those
\* passed to the save, texts and names of equal length.
C11_ListAfterSaveReturnsWhatWasSaved ==
    [][ListRightAfterSave =>
          \E i \in 1..Len(listRet') : DecodesToPassed(listRet'[i], saveRet)]_vars

\* C11, amended: a list that comes right after a successful save of the same
\* owner and reaches the store returns a record whose decoded settings, texts
\* and names are those passed to the save, texts and names of equal length; a
\* list that does not reach the store returns no record.
C11_ListAfterSaveRoundTrip ==
    [][ListRightAfterSave =>
          IF lastCall'.outcome = "ok"
          THEN \E i \in 1..Len(listRet') : DecodesToPassed(listRet'[i], saveRet)
          ELSE listRet' = <<>>]_vars

\* A listing holds a record saved with a text of a quote, a backslash and the
\* letter n, and with settings that are not the defaults.
C11_Witness ==
    /\ lastCall.op = "list"
    /\ lastCall.outcome = "ok"
    /\ \E i \in 1..Len(listRet) :
           /\ DecodesToPassed(listRet[i], listRet[i][1])
           /\ \E k \in 1..Len(PassedTo(listRet[i][1])[3]) :
                  PassedTo(listRet[i][1])[3][k] = <<"\"", "\\", "n", "\"">>
           /\ PassedTo(listRet[i][1])[5] # SampleSettings

(***************************************************************************)
(* What the claims about the session and its batches speak of.             *)
(***************************************************************************)
\* Entry i of the texts is a text read from the picture of entry i of the
\* images, and that entry holds the name of the file of that picture.
FromSameImage(i) ==
    /\ \E k \in 1..Len(Files) : processed_images[i] = <<Files[k].name, Files[k].image>>
    /\ all_extracted_texts[i] \in
           {TextOf(a) : a \in ImageAnswers(processed_images[i][2])} \ {<<>>}

\* C12: in every state of a session, whatever process-one, process-all (also
\* when an exception of the model ends it), clear, logout and login were done,
\* the accumulated texts and the accumulated (name, image) pairs have the same
\* length, and entry i of each comes from the same image.
C12_TextsAndImagesAligned ==
    /\ Len(all_extracted_texts) = Len(processed_images)
    /\ \A i \in 1..Len(all_extracted_texts) : FromSameImage(i)

\* A batch that an exception ended at its second image, after the first gave a
\* text, in the session of the second user.
C12_Witness ==
    /\ lastBatch.kind = "all"
    /\ lastBatch.sent = 2
    /\ lastBatch.answers[2].error # "none"
    /\ Len(all_extracted_texts) = 1
    /\ user_id = 2

\* The images of the last batch that the model answered with a text that is
\* not empty once normalized.
GoodOfBatch ==
    {k \in 1..lastBatch.sent :
        /\ lastBatch.answers[k].error = "none"
        /\ TextOf(lastBatch.answers[k]) # <<>>}

\* The accumulated items are those of the images of this set, in their order.
ItemsAreOf(good) ==
    /\ Len(all_extracted_texts) = Cardinality(good)
    /\ Len(processed_images) = Cardinality(good)
    /\ \A k \in good :
           LET at == Cardinality({j \in good : j <= k})
           IN  /\ processed_images[at] = <<lastBatch.files[k].name, lastBatch.files[k].image>>
               /\ all_extracted_texts[at] = TextOf(lastBatch.answers[k])

\* A batch that got hold of the model.
BatchRan == lastBatch.kind = "all" /\ lastBatch.model_found

\* The images at which generate_content raised in the last batch.
RaisedAt == {k \in 1..lastBatch.sent : lastBatch.answers[k].error # "none"}

\* C14: in a batch, an image whose response is missing, empty or empty once
\* normalized is not accumulated and the batch goes on: as long as no call
\* raises every image is sent to the model, and the accumulated items are
\* exactly those of the images answered with a text, the later ones too.
C14_EmptyResponseSkippedBatchGoesOn ==
    BatchRan =>
        /\ RaisedAt = {} => lastBatch.sent = Len(lastBatch.files)
        /\ ItemsAreOf(GoodOfBatch)

\* A batch whose first image came back as markup alone and whose second image
\* gave a text, which is the only item.
C14_Witness ==
    /\ BatchRan
    /\ lastBatch.sent = 2
    /\ lastBatch.answers[1] = [error |-> "none", text |-> <<"<", "b", "r", ">">>]
    /\ all_extracted_texts = <<TextOf([error |-> "none", text |-> TextOn("picture B")])>>
    /\ processed_images = <<<<FileB.name, FileB.image>>>>

\* What the session held before the last batch is still held.
HeldBeforeIsRetained ==
    \A i \in 1..Len(lastBatch.before[1]) :
        \E j \in 1..Len(all_extracted_texts) :
            /\ all_extracted_texts[j] = lastBatch.before[1][i]
            /\ processed_images[j] = lastBatch.before[2][i]

\* C15, as stated: when the model call raises on image k of a batch, no later
\* image is sent, the accumulated items are exactly those of images 1..k-1 of
\* the batch, and what the session held before the batch is retained.
C15_AbortKeepsEarlierAndPriorResults ==
    (BatchRan /\ RaisedAt # {}) =>
        /\ RaisedAt = {lastBatch.sent}
        /\ ItemsAreOf(GoodOfBatch)
        /\ HeldBeforeIsRetained

\* C15, amended: when the model call raises on image k of a batch, no later
\* image is sent and the accumulated items are exactly those of images 1..k-1
\* of the batch; what the session held before the batch was emptied when the
\* batch started. Only when get_model itself raises, before the batch starts,
\* are the items held before left as they were.
C15_AbortKeepsEarlierOfBatchOnly ==
    /\ (BatchRan /\ RaisedAt # {}) =>
          /\ RaisedAt = {lastBatch.sent}
          /\ ItemsAreOf(GoodOfBatch)
    /\ (lastBatch.kind = "all" /\ ~lastBatch.model_found) =>
          /\ lastBatch.sent = 0
          /\ all_extracted_texts = lastBatch.before[1]
          /\ processed_images = lastBatch.before[2]

\* A batch that raised on its second image after a text from the first, in a
\* session that held an item of the second image before.
C15_Witness ==
    /\ BatchRan
    /\ RaisedAt = {2}
    /\ Len(all_extracted_texts) = 1
    /\ Len(lastBatch.before[1]) >= 1
    /\ lastBatch.before[2][1][2] = "picture B"

\* C16: after a processing action the accumulated items are only results of
\* that action: those of a batch are the items of that batch, and no two
\* accumulated items are of the same image.
C16_ReprocessingReplaces ==
    /\ BatchRan => ItemsAreOf(GoodOfBatch)
    /\ \A i, j \in 1..Len(processed_images) :
           i # j => processed_images[i][2] # processed_images[j][2]

\* C17: right after Logout and right after Clear Current Session the
\* accumulated texts and images are empty and the formatting panel is hidden.
C17_LogoutAndClearDiscardSessionState ==
    [][(Logout \/ ClearCurrentSession) =>
          /\ all_extracted_texts' = <<>>
          /\ processed_images' = <<>>
          /\ show_formatting_panel' = FALSE]_vars

\* The place of the file of a name among the files of the last batch.
PlaceInBatch(name) ==
    CHOOSE k \in 1..Len(lastBatch.files) : lastBatch.files[k].name = name

\* C21: a press of Process All Images that got hold of the model sends the
\* uploaded images in the order of the upload, the first, then the second and so
\* on, none of them twice, whatever the answers (an empty one, an exception);
\* the accumulated items are those of the images answered with a text that is
\* not empty, in the order of the upload.
C21_BatchInUploadOrderOnceEach ==
    BatchRan =>
        /\ Len(lastBatch.calls) <= Len(lastBatch.files)
        /\ Len(lastBatch.calls) = lastBatch.sent
        /\ \A i \in 1..Len(lastBatch.calls) :
               lastBatch.calls[i] = lastBatch.files[i].name
        /\ \A i, j \in 1..Len(lastBatch.calls) :
               i # j => lastBatch.calls[i] # lastBatch.calls[j]
        /\ ItemsAreOf(GoodOfBatch)
        /\ \A i, j \in 1..Len(processed_images) :
               i < j => PlaceInBatch(processed_images[i][1])
                            < PlaceInBatch(processed_images[j][1])

\* A batch of two images: the first answered with nothing and not sent again,
\* the second with a text, which is the only item.
C21_Witness ==
    /\ BatchRan
    /\ lastBatch.calls = <<FileA.name, FileB.name>>
    /\ lastBatch.answers[1] = [error |-> "none", text |-> <<>>]
    /\ processed_images = <<<<FileB.name, FileB.image>>>>
    /\ all_extracted_texts # <<>>

\* The places in models_to_try of the identifiers that could be instantiated
\* in the last press of Process All Images.
CouldInstantiate ==
    {k \in 1..Len(ModelsToTry) : ModelsToTry[k] \in lastBatch.instantiable}

\* C22: get_model tries the identifiers of its list in their order and returns
\* the model of the first one that can be instantiated, trying none after it;
\* when none can be instantiated it has tried them all and raises its "No
\* compatible Gemini model found", no image is sent to the model and the
\* accumulated items are those held before the press.
C22_FirstInstantiableModelOrNoCall ==
    lastBatch.kind = "all" =>
        /\ Len(lastBatch.tried) <= Len(ModelsToTry)
        /\ \A i \in 1..Len(lastBatch.tried) : lastBatch.tried[i] = ModelsToTry[i]
        /\ IF CouldInstantiate # {}
           THEN LET first == MinOf(CouldInstantiate)
                IN  /\ lastBatch.model = ModelsToTry[first]
                    /\ Len(lastBatch.tried) = first
                    /\ lastBatch.error = "none"
                    /\ lastBatch.model_found
           ELSE /\ lastBatch.model = "none"
                /\ lastBatch.tried = ModelsToTry
                /\ lastBatch.error = "No compatible Gemini model found"
                /\ ~lastBatch.model_found
                /\ lastBatch.calls = <<>>
                /\ lastBatch.sent = 0
                /\ all_extracted_texts = lastBatch.before[1]
                /\ processed_images = lastBatch.before[2]

\* A press that found no model after trying the whole list, in a session that
\* held the items of an earlier batch: they are still there.
C22_Witness ==
    /\ lastBatch.kind = "all"
    /\ lastBatch.instantiable = {}
    /\ lastBatch.tried = ModelsToTry
    /\ lastBatch.model = "none"
    /\ lastBatch.calls = <<>>
    /\ Len(lastBatch.before[1]) >= 1
    /\ all_extracted_texts = lastBatch.before[1]

(***************************************************************************)
(* What the claims about the Save Document button speak of.                *)
(***************************************************************************)
\* This run was a save that failed: the gateway returned None, or the name was
\* blank and the gateway was not called.
SaveFailed ==
    \/ lastCall'.op = "save" /\ saveRet' = 0
    \/ lastCall'.outcome = "blank name"

\* This run was a save that stored, the run before it a save of the same user
\* that failed.
RetrySucceeded ==
    /\ lastCall'.op = "save"
    /\ lastCall'.retry
    /\ saveRet' # 0

\* C18: a save that fails (no store, the insert raises, or a blank name) leaves
\* the texts, the images and the authentication of the session as they were and
\* inserts no record; the same save pressed again right after it, when it
\* succeeds, leaves exactly one record more than there was before the failure,
\* the record of the session's texts.
C18_FailedSaveChangesNothingRetryStoresOne ==
    [][/\ SaveFailed =>
             /\ UNCHANGED <<loginVars, sessionVars>>
             /\ documents' = documents
             /\ ledger'.saved = ledger.saved
       /\ RetrySucceeded =>
             /\ UNCHANGED <<loginVars, sessionVars>>
             /\ Cardinality(documents' \ lastCall.before) = 1
             /\ lastCall.before \subseteq documents'
             /\ \A r \in documents' \ lastCall.before :
                    /\ r.id = saveRet'
                    /\ r.user_id = user_id
                    /\ json_loads_list(r.extracted_texts) = all_extracted_texts]_vars

\* A save has stored the one record of the store right after a save of the same
\* session that failed.
C18_Witness ==
    /\ lastCall.op = "save"
    /\ lastCall.retry
    /\ saveRet # 0
    /\ authenticated
    /\ all_extracted_texts # <<>>
    /\ Cardinality(documents) = 1

(***************************************************************************)
(* What the claims about the account and My Documents speak of.            *)
(***************************************************************************)
\* The session is logged in with its user and that user's name, or logged out
\* with neither and without items; the gateway call and the batch of this run,
\* if any, were made logged in, the call with the id of the user logged in.
AccountConsistent ==
    /\ authenticated <=> user_id # 0
    /\ authenticated <=> username # ""
    /\ authenticated => user_id \in Users /\ username = Usernames[user_id]
    /\ ~authenticated => all_extracted_texts = <<>> /\ processed_images = <<>>
    /\ lastCall.op \in {"save", "list", "delete"} =>
           authenticated /\ lastCall.user_id = user_id
    /\ lastBatch.kind # "none" => authenticated

\* A run that changed the store or extracted a text was made logged in, by the
\* user who stays logged in, and what it stored is that user's.
DoneLoggedIn ==
    (\/ documents' # documents
     \/ all_extracted_texts' # all_extracted_texts /\ all_extracted_texts' # <<>>) =>
        /\ authenticated
        /\ UNCHANGED loginVars
        /\ \A r \in (documents' \ documents) \cup (documents \ documents') :
               r.user_id = user_id

\* C23: in every state of a session, authenticated is true exactly when user_id
\* and username are set, and a session that is not authenticated holds no texts
\* and no images; texts are extracted and documents saved, listed and deleted
\* only while authenticated, with the user_id of the user logged in.
C23_AuthenticatedIffUserAndActsAsUser ==
    [][AccountConsistent /\ AccountConsistent' /\ DoneLoggedIn]_vars

\* The second user has logged in after the first one saved a document and
\* logged out, and lists the documents in My Documents: with the second id.
C23_Witness ==
    /\ authenticated
    /\ user_id = 2
    /\ username = Usernames[2]
    /\ lastCall.op = "list"
    /\ lastCall.user_id = 2
    /\ \E r \in documents : r.user_id = 1

\* C24: My Documents says "Document deleted!" only when delete_document has
\* removed the record and returned True; when it returns False (no store, an
\* exception, no record of that id and owner) the user is not told so.
C24_DeletedSaidOnlyWhenDeleted ==
    notice = "Document deleted!" =>
        /\ lastCall.op = "delete"
        /\ deleteRet
        /\ \E r \in lastCall.before : r.id = lastCall.doc_id
        /\ \A r \in documents : r.id # lastCall.doc_id

(***************************************************************************)
(* What the claims about the assembled document speak of.                  *)
(***************************************************************************)
\* The places of the blocks of a kind in the assembled document.
BlocksOf(kind) == {k \in 1..Len(docx.blocks) : docx.blocks[k].kind = kind}

\* C13: create_formatted_document called with texts and names of different
\* lengths fails before anything of an item (a heading, a page break, a picture)
\* is added, and returns no document, whether the names are fewer or more.
C13_MismatchFailsFast ==
    (docx.kind # "none" /\ Len(docx.texts) # Len(docx.names)) =>
        /\ docx.raised
        /\ BlocksOf("heading") \cup BlocksOf("page break") \cup BlocksOf("picture") = {}

\* The place of the i-th heading of the assembled document.
HeadingPlace(i) ==
    CHOOSE k \in BlocksOf("heading") :
        Cardinality({j \in BlocksOf("heading") : j < k}) = i - 1

\* The places of the blocks under the i-th heading, up to the next heading.
UnderHeading(i) ==
    {k \in 1..Len(docx.blocks) :
        /\ k > HeadingPlace(i)
        /\ \A j \in BlocksOf("heading") : j > HeadingPlace(i) => k < j}

\* The text of item i is written under the i-th heading, whole or line by line.
TextUnderHeading(i) ==
    \/ \E k \in UnderHeading(i) : docx.blocks[k].content = docx.texts[i]
    \/ LET lines == SplitLines(docx.texts[i])
       IN  \A l \in 1..Len(lines) :
               Strip(lines[l]) # <<>> =>
                   \E k \in UnderHeading(i) : docx.blocks[k].content = lines[l]

\* C19: in a document that create_formatted_document returns, the items are in
\* the order of the texts, item i under the heading "Image i: " and its name;
\* a page break stands right before the heading of item i exactly when
\* separate_pages is set and i > 1, and nowhere else, so that n >= 1 items have
\* n - 1 page breaks with separate_pages and none without.
C19_ItemsInOrderBreaksBetween ==
    (docx.kind # "none" /\ ~docx.raised) =>
        LET n == Len(docx.texts)
        IN  /\ Cardinality(BlocksOf("heading")) = n
            /\ \A i \in 1..n :
                   /\ docx.blocks[HeadingPlace(i)].content =
                          <<"Image ", ToString(i), ": ">> \o docx.names[i]
                   /\ TextUnderHeading(i)
                   /\ docx.blocks[HeadingPlace(i) - 1].kind = "page break"
                          <=> (docx.separate_pages /\ i > 1)
            /\ \A k \in BlocksOf("page break") :
                   k + 1 \in BlocksOf("heading")
            /\ n >= 1 =>
                   Cardinality(BlocksOf("page break")) =
                       IF docx.separate_pages THEN n - 1 ELSE 0

\* A document of two items was assembled with separate_pages: one page break.
C19_Witness ==
    /\ docx.kind # "none"
    /\ ~docx.raised
    /\ Len(docx.texts) = 2
    /\ docx.separate_pages
    /\ Cardinality(BlocksOf("page break")) = 1
    /\ docx.blocks[HeadingPlace(2)].content =
           <<"Image ", "2", ": ">> \o FileA.name

\* The picture that the uploaded file of a name shows.
ImageNamed(name) == {Files[k].image : k \in {j \in 1..Len(Files) : Files[j].name = name}}

\* The pictures embedded under the i-th heading.
PicturesUnder(i) ==
    {docx.blocks[k].content[1] : k \in UnderHeading(i) \cap BlocksOf("picture")}

\* A line in brackets stands under the i-th heading.
PlaceholderUnder(i) ==
    \E k \in UnderHeading(i) :
        /\ docx.blocks[k].content # <<>>
        /\ docx.blocks[k].content[1] = "[Could not embed image: "

NormInit == NormIdle /\ PromptIdle /\ StoreIdle /\ AppIdle

NormNext ==
    \/ \E f \in Fragments : Receive(f)
    \/ CleanText
    \/ CleanAgain

\* The normalizer on every response of up to MaxFragments fragments.
SpecNormalize == NormInit /\ [][NormNext]_vars

PromptInit == NormIdle /\ PromptIdle /\ StoreIdle /\ AppIdle

PromptNext ==
    \/ \E m \in OcrModes : SelectOcrMode(m)
    \/ \E l \in TargetLanguages : SelectTargetLanguage(l)
    \/ TogglePreserveFormatting
    \/ ToggleFixGrammar
    \/ ToggleIncludeConfidence
    \/ CreatePrompt

\* The prompt builder under every selection of the sidebar.
SpecPrompt == PromptInit /\ [][PromptNext]_vars

StoreInit == NormIdle /\ PromptIdle /\ StoreIdle /\ AppIdle

StoreNext ==
    \/ \E user \in Users, texts \in SampleTexts, outcome \in Outcomes, now \in 0..MaxClock :
           SaveDocument(user, texts, outcome, now)
    \/ \E user \in Users, outcome \in Outcomes : ListDocuments(user, outcome)
    \/ \E user \in Users, doc_id \in DocIds, outcome \in Outcomes :
           DeleteDocument(user, doc_id, outcome)

\* The gateway called by any user, in any order.
SpecStore == StoreInit /\ [][StoreNext]_vars

ExportInit == NormIdle /\ PromptIdle /\ StoreIdle /\ AppIdle

ExportNext ==
    \/ Login(1)
    \/ UploadFiles
    \/ \E k \in 1..Len(Files) : \E answer \in Answers(Files[k].image) :
           ProcessSelectedImage(Files[k].name, answer)
    \/ ClearCurrentSession
    \/ \E doc_name \in DocNames, outcome \in Outcomes, now \in 0..MaxClock :
           SaveDocumentButton(doc_name, outcome, now)
    \/ QuickDownloadTxt
    \/ \E i \in 1..MaxSaves, outcome \in Outcomes : DownloadSavedTxt(i, outcome)

\* One session of the first user: texts are extracted an image at a time, saved
\* and exported.
SpecExport == ExportInit /\ [][ExportNext]_vars

RoundTripInit == NormIdle /\ PromptIdle /\ StoreIdle /\ AppIdle

RoundTripNext ==
    \/ \E user \in Users, lists \in RoundTripLists, settings \in RoundTripSettings,
          outcome \in Outcomes, now \in 0..MaxClock :
           SaveDocumentWith(user, lists, settings, outcome, now)
    \/ \E user \in Users, outcome \in Outcomes : ListDocuments(user, outcome)

\* Documents are saved with texts, names and settings of many kinds, and listed.
SpecRoundTrip == RoundTripInit /\ [][RoundTripNext]_vars

SessionInit == NormIdle /\ PromptIdle /\ StoreIdle /\ AppIdle

SessionNext ==
    \/ \E user \in Users : Login(user)
    \/ Logout
    \/ UploadFiles
    \/ \E k \in 1..Len(Files) : \E answer \in Answers(Files[k].image) :
           ProcessSelectedImage(Files[k].name, answer)
    \/ \E instantiable \in SomeInstantiable, answers \in BatchAnswers(Files) :
           ProcessAllImages(instantiable, answers)
    \/ ClearCurrentSession
    \/ ToggleFormattingPanel

\* One browser session: users log in and out, and texts are extracted an image
\* at a time or all at once.
SpecSession == SessionInit /\ [][SessionNext]_vars

AssembleInit == NormIdle /\ PromptIdle /\ StoreIdle /\ AppIdle

AssembleNext ==
    \/ \E user \in Users : Login(user)
    \/ UploadFiles
    \/ \E instantiable \in SomeInstantiable, answers \in BatchAnswers(Files) :
           ProcessAllImages(instantiable, answers)
    \/ \E texts \in AssemblerTexts, names \in AssemblerNames, separate \in BOOLEAN,
          include \in BOOLEAN, preserve \in BOOLEAN, unsavable \in Unsavable :
           AssembleDocument(texts, names, separate, include, preserve, unsavable)

\* create_formatted_document called with lists of any lengths, in a session that
\* holds images or none.
SpecAssemble == AssembleInit /\ [][AssembleNext]_vars

DocxInit == NormIdle /\ PromptIdle /\ StoreIdle /\ AppIdle

DocxNext ==
    \/ Login(1)
    \/ UploadFiles
    \/ \E instantiable \in SomeInstantiable, answers \in BatchAnswers(Files) :
           ProcessAllImages(instantiable, answers)
    \/ ClearCurrentSession
    \/ ToggleFormattingPanel
    \/ SaveDocumentButton(<<"D", "o", "c">>, "ok", clock)
    \/ \E doc_name \in {<<"D", "o", "c">>, <<>>}, format_settings \in FormatSettings,
          unsavable \in Unsavable :
           QuickDownloadDocx(doc_name, format_settings, unsavable)
    \/ \E i \in 1..MaxSaves, outcome \in Outcomes, unsavable \in Unsavable :
           DownloadSavedDocx(i, outcome, unsavable)

\* One session of the first user: texts are extracted all at once, saved, and
\* exported as word-processing documents from the session and from My
\* Documents.
SpecDocx == DocxInit /\ [][DocxNext]_vars

ModelInit == NormIdle /\ PromptIdle /\ StoreIdle /\ AppIdle

ModelNext ==
    \/ Login(1)
    \/ UploadFiles
    \/ \E instantiable \in Instantiable, answers \in BatchAnswers(Files) :
           ProcessAllImages(instantiable, answers)

\* One session of the first user: batch after batch, with any of the models
\* available or none.
SpecModel == ModelInit /\ [][ModelNext]_vars

AccountInit == NormIdle /\ PromptIdle /\ StoreIdle /\ AppIdle

AccountNext ==
    \/ \E user \in Users : Login(user)
    \/ Logout
    \/ UploadFiles
    \/ \E instantiable \in SomeInstantiable, answers \in PlainAnswers(Files) :
           ProcessAllImages(instantiable, answers)
    \/ \E outcome \in Outcomes : SaveDocumentButton(<<"D", "o", "c">>, outcome, clock)
    \/ \E i \in 1..MaxSaves, outcome \in Outcomes : DownloadSavedTxt(i, outcome)
    \/ \E i \in 1..MaxSaves, outcome \in Outcomes : DeleteSavedDocument(i, outcome)

\* One browser session: users log in and out, extract texts, save them, and
\* list and delete their documents in My Documents.
SpecAccount == AccountInit /\ [][AccountNext]_vars

====
